---- MODULE Spec2Model ----
(***************************************************************************)
(* Model of the Discord voice assistant: the StreamingSink (audio/sink.py) *)
(* and the VoiceSession pipeline (voice_session.py) it feeds.              *)
(*                                                                         *)
(* Text is a sequence of characters (one string each); audio is represented by    *)
(* its byte length and its RMS energy.  Coroutines are cut into steps at   *)
(* the await points at which asyncio can actually suspend them.            *)
(***************************************************************************)
EXTENDS Integers, Sequences, FiniteSets, TLC

(***************************************************************************)
(* Bounds of the model.                                                    *)
(***************************************************************************)
\* number of pipeline tasks (process_segment / flush dispatches) explored
MaxTasks == 2
\* concurrent callers of the VoiceManager (commands, events, timer tasks)
MaxCallers == 2
\* VoiceSession objects the model keeps apart at one time
MaxSessions == 2
\* run loops of the bridge client (calls of VoiceBridgeClient.start())
MaxLoops == 2
\* consecutive failed connection attempts explored
MaxAttempts == 6
\* play frames sent to the bridge
MaxPlays == 2
\* number of LLM deltas delivered to one pipeline run
MaxDeltas == 2
\* number of drain() calls explored (the epoch counter itself is unbounded)
MaxEpoch == 2
\* the same when the sink is driven on its own
MaxSinkEpoch == 1
\* number of pipeline tasks explored when the sink is driven on its own
MaxSinkTasks == 1
\* largest buffer size explored on the write() path, in bytes
MaxBufModel == 50000000
\* number of silence timers alive at the same time when the sink is driven
\* by segments and chunks together
MaxTimers == 1
\* the same when the write() path is driven on its own
MaxWriteTimers == 2
\* deltas given to the sentence splitter on its own
MaxSplitDeltas == 4

(***************************************************************************)
(* Program constants.                                                      *)
(***************************************************************************)
DISCORD_SAMPLE_RATE == 48000
TARGET_SAMPLE_RATE == 16000
SILENCE_THRESHOLD == 300
PLAYBACK_SPEECH_THRESHOLD == 1200
MAX_BUFFER_SIZE == DISCORD_SAMPLE_RATE * 2 * 2 * 120
MAX_SENTENCE_CHARS == 300

Users == {1}
TaskIds == 1..MaxTasks
TimerIds == 1..MaxWriteTimers

\* RMS energies of the audio the bridge delivers: silence, speech that only
\* passes the idle threshold, the playback threshold itself, loud speech.
RmsValues == {300, 800, 1200, 1500}
\* Raw byte lengths of bridge segments (48 kHz stereo 16-bit): just under and
\* exactly 0.5 s of audio.
SegLens == {95996, 96000}
\* Chunk lengths on the streaming write() path: 0.25 s and 120 s of audio.
ChunkLens == {48000, 23040000}

(***************************************************************************)
(* Text helpers.                                                           *)
(***************************************************************************)
Whitespace == {" ", "\n", "\t"}
Digits == {"0", "1", "2", "3", "4", "5", "6", "7", "8", "9"}
Terminators == {".", "!", "?"}
\* the em dash and the en dash are written "emdash" and "endash"
ClauseBreaks == {",", ";", ":", "emdash", "endash", "-"}
Abbrev2 == {<<"M","r">>, <<"M","s">>, <<"D","r">>, <<"J","r">>, <<"S","r">>,
            <<"S","t">>, <<"v","s">>, <<"c","o">>}
Abbrev3 == {<<"M","r","s">>, <<"e","t","c">>, <<"i","n","c">>, <<"l","t","d">>}

RECURSIVE LStrip(_)
LStrip(s) ==
    IF s # <<>> /\ Head(s) \in Whitespace THEN LStrip(Tail(s)) ELSE s

RECURSIVE RStrip(_)
RStrip(s) ==
    IF s # <<>> /\ s[Len(s)] \in Whitespace
    THEN RStrip(SubSeq(s, 1, Len(s) - 1)) ELSE s

\* str.strip()
Strip(s) == RStrip(LStrip(s))

\* the k characters that precede position i (1-based), or <<>> if too few
Preceding(s, i, k) == IF i - k >= 1 THEN SubSeq(s, i - k, i - 1) ELSE <<>>

SentenceEndAtAnyPeriod(s, i) ==
    /\ s[i] \in Terminators
    /\ (i = Len(s) \/ s[i + 1] \in Whitespace)

\* _SENTENCE_END_RE matches with its punctuation character at position i
SentenceEndAt(s, i) ==
    /\ s[i] \in Terminators
    /\ Preceding(s, i, 2) \notin Abbrev2
    /\ Preceding(s, i, 3) \notin Abbrev3
    /\ ~(i > 1 /\ s[i - 1] \in Digits)
    /\ (i = Len(s) \/ s[i + 1] \in Whitespace)

\* end offset (m.end()) of the leftmost match of _SENTENCE_END_RE, 0 if none
SentenceEnd(s) ==
    LET hits == {i \in 1..Len(s) : SentenceEndAt(s, i)}
    IN  IF hits = {} THEN 0
        ELSE LET i == CHOOSE j \in hits : \A k \in hits : j <= k
             IN  IF i < Len(s) THEN i + 1 ELSE i

\* a result of (None, buffer) is written [found |-> FALSE, ...]
_split_first_sentence(buffer) ==
    LET end == SentenceEnd(buffer)
    IN  IF end > 0
        THEN [found |-> TRUE, sentence |-> Strip(SubSeq(buffer, 1, end)),
              rest |-> SubSeq(buffer, end + 1, Len(buffer))]
        ELSE [found |-> FALSE, sentence |-> <<>>, rest |-> buffer]

_force_split_long(buffer) ==
    IF Len(buffer) < MAX_SENTENCE_CHARS
    THEN [found |-> FALSE, sentence |-> <<>>, rest |-> buffer]
    ELSE
      LET window == SubSeq(buffer, 1, MAX_SENTENCE_CHARS)
          breaks == {i \in 1..(Len(window) - 1) :
                        window[i] \in ClauseBreaks /\ window[i + 1] \in Whitespace}
          best == IF breaks = {} THEN 0 - 1
                  ELSE (CHOOSE j \in breaks : \A k \in breaks : j >= k) + 1
          spaces == {i \in 1..Len(window) : window[i] = " "}
          \* str.rfind gives a 0-based index, -1 when absent
          last_space == IF spaces = {} THEN 0 - 1
                        ELSE (CHOOSE j \in spaces : \A k \in spaces : j >= k) - 1
      IN  IF best > 0
          THEN [found |-> TRUE, sentence |-> Strip(SubSeq(buffer, 1, best)),
                rest |-> SubSeq(buffer, best + 1, Len(buffer))]
          ELSE IF last_space > 0
          THEN [found |-> TRUE, sentence |-> Strip(SubSeq(buffer, 1, last_space)),
                rest |-> SubSeq(buffer, last_space + 2, Len(buffer))]
          ELSE [found |-> TRUE, sentence |-> SubSeq(buffer, 1, MAX_SENTENCE_CHARS),
                rest |-> SubSeq(buffer, MAX_SENTENCE_CHARS + 1, Len(buffer))]

\* The inner "while True" of the LLM read loop: the sentences that are moved
\* from the buffer to the sentence queue, and what stays in the buffer.
RECURSIVE ExtractSentences(_, _)
ExtractSentences(buf, acc) ==
    LET s1 == _split_first_sentence(buf)
        s2 == IF s1.found THEN s1 ELSE _force_split_long(buf)
    IN  IF s2.found
        THEN ExtractSentences(s2.rest, Append(acc, s2.sentence))
        ELSE [sentences |-> acc, rest |-> buf]

(***************************************************************************)
(* Audio helpers.                                                          *)
(***************************************************************************)
\* length in bytes of _downsample(raw) for a raw buffer of n bytes (n even)
DownsampledLen(n) ==
    LET samples == n \div 2
        mono == IF samples % 2 = 0 THEN samples \div 2 ELSE samples
        trim == mono - (mono % 3)
    IN  (trim \div 3) * 2

(***************************************************************************)
(* State.                                                                  *)
(***************************************************************************)
VARIABLES
    \* StreamingSink
    buffers,          \* _buffers: user -> buffered bytes
    speaking,         \* _speaking: user -> BOOLEAN
    last_speech,      \* _last_speech: the users that have an entry
    silence_tasks,    \* _silence_tasks: user -> timer id, 0 when absent
    timers,           \* the _check_silence tasks: timer id -> [user, st, spoke]
    pipeline_tasks,   \* _pipeline_tasks: set of task ids
    playback_active,  \* _playback_active
    epoch,            \* _epoch
    \* the event loop's tasks created by the sink
    tasks,            \* task id -> [kind, user, len, epoch, pc]
    ready,            \* created tasks that have not run yet, in creation order
    nextTask,         \* next unused task id
    \* VoiceSession
    is_active,
    stop_pc,          \* position of stop(): "idle", "waiting", "stopped"
    is_playing,       \* _is_playing (looping thinking sound)
    interrupted,      \* _interrupted
    partial,          \* _interrupted_partial_response (<<>> is None)
    lock_owner,       \* _processing_lock: holder task id, 0 when free
    lock_waiters,     \* _processing_lock: FIFO of waiting task ids
    \* locals of the pipeline run inside the lock section
    text, sentence_buf, full_response, first_sentence,
    sentence_queue, audio_queue,
    tts_pc, tts_item, play_pc, play_item,
    ndeltas,          \* deltas delivered to this run so far
    run_exc,          \* exception pending while the finally block runs
    run_owner,        \* task id of the run that created the workers
    \* history
    frames,           \* frames sent to the bridge by and during the current run
    enq,              \* items put on sentence_queue by the current run
    quiet,            \* what became of the process_segment calls made during
                      \* playback with audible energy up to the playback threshold
    flag_sets,        \* times _interrupted went False -> True since lock entry
    lock_order,       \* task ids in the order they took the processing lock
    llm_request       \* effective_text sent to the LLM by the current run

VARIABLES
    \* VoiceManager, for one guild
    sessions,         \* _sessions[guild]: session id, 0 when absent
    vsess,            \* session id -> [st, active, channel, vc, empty]
    callbacks,        \* the bridge's subscriber for the guild, per kind: the
                      \* session whose method is registered, 0 when none
    guild_lock,       \* _guild_locks[guild]: holder caller id, 0 when free
    guild_waiters,    \* _guild_locks[guild]: FIFO of waiting caller ids
    callers,          \* caller id -> [op, pc, chan, sid, cancel, off]
    inactivity,       \* _inactivity_tasks[guild]: the task's slot, 0 when absent
    allowlist,        \* the guild's channel allowlist (empty: all allowed)
    offlist           \* triggers that put a session in a channel the allowlist excluded

mgrVars == <<sessions, vsess, callbacks, guild_lock, guild_waiters, callers,
             inactivity, allowlist, offlist>>
VARIABLES
    \* VoiceBridgeClient
    loops,            \* the _run tasks: loop id -> "none", "connecting", "open",
                      \* "backoff" or "ended"
    run_task,         \* _task: loop id, 0 when None
    ws,               \* _ws: the loop whose socket it refers to, 0 when None
    is_connected,     \* _connected.is_set()
    attempts,         \* _reconnect_attempts
    ready_event,      \* _ready_events[guild]: "none", "unset" or "set"
    play_event,       \* _play_done_events[guild]: "none", "unset" or "set"
    \* callers of the bridge client
    hs,               \* the join handshake of start() / _on_bridge_reconnect()
    play_call,        \* the play() call in progress
    \* the bridge process
    plays,            \* play frame id -> "none", "playing", "looping", "stopped", "done"
    \* history
    last_delay,       \* the delay the run loop computed last
    fails,            \* failed attempts since the last successful connection
    stopped,          \* stop() has returned and start() was not called since
    last_frame        \* the inbound frame the last step handled: <<kind, called>>

brVars == <<loops, run_task, ws, is_connected, attempts, ready_event, play_event,
            hs, play_call, plays, last_delay, fails, stopped, last_frame>>
VARIABLES
    \* VoiceSession: the per-user LLM session ids
    channel_id,       \* self.channel.id
    user_sessions,    \* _user_sessions: user -> session id, <<>> when absent
    \* history
    lookup,           \* the last _get_or_create_user_session call since the
                      \* last move: [op, user, id]
    returned,         \* user -> the ids the lookups of the user returned
    first_seen        \* user -> the session's channel at the user's first
                      \* lookup, 0 before it

idVars == <<channel_id, user_sessions, lookup, returned, first_seen>>
VARIABLES
    \* history of the gates in front of the processing lock
    gate              \* [task, unverified, notified] of the task that came to
                      \* the gates last, when its utterance was unverified (from
                      \* a user not in the auth store, with
                      \* require_wake_word_for_unauthorized set and no wake-word
                      \* detector that returned true), NoGate otherwise;
                      \* notified: it called notify_activity

gateVars == <<gate>>
VARIABLES
    \* the guild's voice connection, as the platform and the bridge hold it
    attached          \* [vc, join]: the guild has a connected voice client
                      \* (guild.voice_client); the bridge got a join frame for
                      \* the guild and no disconnect frame since

connVars == <<attached>>
VARIABLES
    \* history of the segments given to process_segment
    seg_log           \* task id -> [len, calls]: the length of the segment the
                      \* task was created for (0: none) and how often the
                      \* pipeline callback was invoked with it

segVars == <<seg_log>>
VARIABLES
    \* the sentence splitter of the LLM read loop, on its own
    split_buf,        \* sentence_buf
    split_n,          \* deltas read so far
    split_first,      \* what _split_first_sentence returned for the buffer
                      \* the last delta was appended to: [buf, found, sentence, rest]
    split_out         \* the strings the last step put on the sentence queue:
                      \* [s, via, cut, word]

splitVars == <<split_buf, split_n, split_first, split_out>>
VARIABLES
    \* history of drain()
    drained           \* tasks that were dispatched and had not taken the
                      \* processing lock when drain() was called; a task
                      \* leaves the set when it ends or its transcribe() call
                      \* returns

drainVars == <<drained>>
VARIABLES
    \* history of the wake-word gate of authorized users
    wake              \* [seen, humans, bots, has_ww, checked]: the last
                      \* authorized utterance that reached the gate, the
                      \* channel it was heard in, and whether detect() ran
wakeVars == <<wake>>
extVars == <<mgrVars, brVars, idVars, gateVars, connVars, segVars, splitVars, drainVars, wakeVars>>

sinkVars == <<buffers, speaking, last_speech, silence_tasks, timers,
              playback_active, epoch>>
taskVars == <<tasks, ready, nextTask, pipeline_tasks>>
sessVars == <<is_active, stop_pc, is_playing, interrupted, partial,
              lock_owner, lock_waiters>>
runVars  == <<text, sentence_buf, full_response, first_sentence,
              sentence_queue, audio_queue, tts_pc, tts_item, play_pc, play_item,
              ndeltas, run_exc, run_owner>>
histVars == <<frames, enq, quiet, flag_sets, lock_order, llm_request>>
pipelineVars == <<sinkVars, taskVars, sessVars, runVars, histVars>>
vars == <<pipelineVars, extVars>>

NoTask == [kind |-> "none", user |-> 0, len |-> 0, epoch |-> 0, pc |-> "none"]
NoTimer == [user |-> 0, st |-> "none", spoke |-> FALSE]
SENTINEL == [i |-> 0, s |-> <<>>]

\* pcs of a pipeline task that is inside "async with self._processing_lock"
SectionPcs == {"stt", "stt_stop", "llm", "fin_stop", "await_tts", "await_play"}
InSection(t) == tasks[t].pc \in SectionPcs

CallerIds == 1..MaxCallers
\* the _inactivity_disconnect task: at most one is alive at a time
TimerTask == MaxCallers + 1
TaskSlots == CallerIds \cup {TimerTask}
SessionIds == 1..MaxSessions
Channels == {1, 2}
CallbackKinds == {"audio", "speaking", "reconnect"}

NoCallbacks == [k \in CallbackKinds |-> 0]
\* empty: no human member is left in the session's channel
NoSession == [st |-> "none", active |-> FALSE, channel |-> 0, vc |-> FALSE,
              empty |-> FALSE]
IdleCaller == [op |-> "none", pc |-> "idle", chan |-> 0, sid |-> 0, cancel |-> FALSE,
               off |-> FALSE]

\* VoiceManager.__init__: no session, no timer, no lock held; the guild has no
\* channel restriction yet
NoConn == [vc |-> FALSE, join |-> FALSE]

NoGate == [task |-> 0, unverified |-> FALSE, notified |-> FALSE]
NoWake == [seen |-> FALSE, is_authorized |-> FALSE, require_ww |-> FALSE,
           has_ww |-> FALSE, detect |-> FALSE, humans |-> 0, bots |-> 0,
           checked |-> FALSE, passed |-> FALSE]
NoSegment == [len |-> 0, calls |-> 0]

NoSplit == [buf |-> <<>>, found |-> FALSE, sentence |-> <<>>, rest |-> <<>>]

\* sentence_buf = "" before the first delta
SplitInit ==
    /\ split_buf = <<>>
    /\ split_n = 0
    /\ split_first = NoSplit
    /\ split_out = <<>>

MgrInit ==
    /\ sessions = 0
    /\ vsess = [s \in SessionIds |-> NoSession]
    /\ callbacks = NoCallbacks
    /\ guild_lock = 0
    /\ guild_waiters = <<>>
    /\ callers = [c \in TaskSlots |-> IdleCaller]
    /\ inactivity = 0
    /\ allowlist = {}
    /\ offlist = {}

LoopIds == 1..MaxLoops
PlayIds == 1..MaxPlays
_RECONNECT_BASE == 2
_RECONNECT_MAX == 60

NoHandshake == [kind |-> "none", pc |-> "idle", i |-> 0, sent |-> <<>>,
                seen |-> "no", result |-> "none", active |-> FALSE]
NoPlayCall == [pc |-> "idle", id |-> 0, by |-> 0, result |-> "none"]
NoFrame == <<"none", FALSE>>

\* VoiceBridgeClient.__init__: no task, no socket, nothing registered
BridgeInit ==
    /\ loops = [l \in LoopIds |-> "none"]
    /\ run_task = 0
    /\ ws = 0
    /\ is_connected = FALSE
    /\ attempts = 0
    /\ ready_event = "none"
    /\ play_event = "none"
    /\ hs = NoHandshake
    /\ play_call = NoPlayCall
    /\ plays = [p \in PlayIds |-> "none"]
    /\ last_delay = 0
    /\ fails = 0
    /\ stopped = FALSE
    /\ last_frame = NoFrame

IdUsers == {1, 2}
MoveChannels == {1, 2, 3}
NoLookup == [op |-> "none", user |-> 0, id |-> <<>>]

\* VoiceSession.__init__: self.channel = channel, _user_sessions = {}
IdInit ==
    /\ channel_id = 1
    /\ user_sessions = [u \in IdUsers |-> <<>>]
    /\ lookup = NoLookup
    /\ returned = [u \in IdUsers |-> {}]
    /\ first_seen = [u \in IdUsers |-> 0]

\* The state right after VoiceSession.start() has returned: the session is
\* active, the sink exists and is empty, nothing is playing.
Init ==
    /\ buffers = [u \in Users |-> 0]
    /\ speaking = [u \in Users |-> FALSE]
    /\ last_speech = {}
    /\ silence_tasks = [u \in Users |-> 0]
    /\ timers = [k \in TimerIds |-> NoTimer]
    /\ pipeline_tasks = {}
    /\ playback_active = FALSE
    /\ epoch = 0
    /\ tasks = [t \in TaskIds |-> NoTask]
    /\ ready = <<>>
    /\ nextTask = 1
    /\ is_active = TRUE
    /\ stop_pc = "idle"
    /\ is_playing = FALSE
    /\ interrupted = FALSE
    /\ partial = <<>>
    /\ lock_owner = 0
    /\ lock_waiters = <<>>
    /\ text = <<>>
    /\ sentence_buf = <<>>
    /\ full_response = <<>>
    /\ first_sentence = TRUE
    /\ sentence_queue = <<>>
    /\ audio_queue = <<>>
    /\ tts_pc = "none"
    /\ tts_item = SENTINEL
    /\ play_pc = "none"
    /\ play_item = SENTINEL
    /\ ndeltas = 0
    /\ run_exc = "none"
    /\ run_owner = 0
    /\ frames = <<>>
    /\ enq = <<>>
    /\ quiet = "none"
    /\ flag_sets = 0
    /\ lock_order = <<>>
    /\ llm_request = <<>>
    /\ MgrInit
    /\ BridgeInit
    /\ IdInit
    /\ attached = NoConn
    /\ drained = {}
    /\ wake = NoWake
    /\ SplitInit
    /\ seg_log = [t \in TaskIds |-> NoSegment]
    /\ gate = NoGate

(***************************************************************************)
(* VoiceBridgeClient: outbound frames (the socket is open).                *)
(***************************************************************************)
Frame(op, audio, fade) == [op |-> op, audio |-> audio, fade |-> fade]

\* play(): the play frame for one synthesized sentence
PlayFrame(item) == Frame("play", item, FALSE)

\* _start_thinking_sound(): the looping play frame
ThinkingFrame == Frame("play_loop", SENTINEL, FALSE)

\* stop_playing(guild_id): the frames on the wire after the call.  The method
\* takes guild_id only, so a call that passes the keyword argument fade
\* raises TypeError before anything is sent (every caller swallows it).
stop_playing(fs, fade_kw) ==
    IF fade_kw THEN fs ELSE Append(fs, Frame("stop", SENTINEL, FALSE))

(***************************************************************************)
(* StreamingSink: segment path.                                            *)
(***************************************************************************)
SegmentThresholdIdle == SILENCE_THRESHOLD

\* process_segment: threshold = PLAYBACK_SPEECH_THRESHOLD if playing
SegmentThreshold ==
    IF playback_active THEN PLAYBACK_SPEECH_THRESHOLD ELSE SILENCE_THRESHOLD

\* loop.create_task(...); _pipeline_tasks.add(task)
CreateTask(kind, u, len) ==
    /\ nextTask <= MaxTasks
    /\ tasks' = [tasks EXCEPT ![nextTask] =
                    [kind |-> kind, user |-> u, len |-> len,
                     epoch |-> epoch, pc |-> "ready"]]
    /\ ready' = Append(ready, nextTask)
    /\ pipeline_tasks' = pipeline_tasks \cup {nextTask}
    /\ nextTask' = nextTask + 1

\* process_segment(user_id, pcm) for pcm of len bytes and energy rms
\* (np.frombuffer raises on an odd number of bytes)
process_segment(u, rms, len) ==
    IF len = 0 \/ len % 2 = 1 \/ rms <= SegmentThreshold
    THEN UNCHANGED taskVars
    ELSE CreateTask("segment", u, len)

StaleNever(task_epoch) == FALSE

\* _process_raw_segment: "if epoch != self._epoch" - the segment is stale
Stale(task_epoch) == task_epoch # epoch

TooShortNever(len) == FALSE

\* _process_raw_segment: "if len(mono_16k) < min_bytes"
TooShort(len) == DownsampledLen(len) < TARGET_SAMPLE_RATE

\* _process_raw_segment up to the callback: how the task leaves it
SegmentOutcome(task) ==
    IF TooShort(task.len) THEN "done"
    ELSE IF Stale(task.epoch) THEN "stale"
    ELSE "called"

\* drain(): the epoch after the call
DrainEpoch == epoch + 1

\* task.cancel() on a silence timer: a timer that has not started yet never
\* runs; a sleeping one gets CancelledError and still runs its finally block
CancelTimers(ks) ==
    [k \in TimerIds |->
        IF k \in ks
        THEN IF timers[k].st = "sleep" THEN [timers[k] EXCEPT !.st = "cancelled"]
             ELSE NoTimer
        ELSE timers[k]]

\* the timers _silence_tasks refers to
Registered == {silence_tasks[u] : u \in Users} \ {0}

PipelineDropped(pt) == {}

\* drain(): what it leaves of _pipeline_tasks
PipelineAfterDrain(pt) == pt

\* drain()
drain ==
    /\ epoch' = DrainEpoch
    /\ timers' = CancelTimers(Registered)
    /\ silence_tasks' = [u \in Users |-> 0]
    /\ buffers' = [u \in Users |-> 0]
    /\ speaking' = [u \in Users |-> FALSE]
    /\ last_speech' = {}
    /\ pipeline_tasks' = PipelineAfterDrain(pipeline_tasks)

(***************************************************************************)
(* StreamingSink: streaming path (write, silence timers, flush).           *)
(***************************************************************************)
FreeTimers == {k \in TimerIds : timers[k].st = "none"}

\* a speech chunk moves _last_speech[u]: a timer of u that is still alive
\* will find that less than VAD_SILENCE_DURATION may have passed
MarkSpoke(tm, u) ==
    [k \in TimerIds |->
        IF tm[k].user = u /\ tm[k].st \in {"new", "sleep"}
        THEN [tm[k] EXCEPT !.spoke = TRUE] ELSE tm[k]]

\* write: "if len(self._buffers[user_id]) + len(pcm) > MAX_BUFFER_SIZE"
Overflows(u, len) == buffers[u] + len > MAX_BUFFER_SIZE

\* write(user_id, pcm) for pcm of len bytes (even) and energy rms
write(u, rms, len) ==
    IF len = 0
    THEN UNCHANGED <<buffers, speaking, last_speech, silence_tasks, timers, taskVars>>
    ELSE IF rms > SILENCE_THRESHOLD
    THEN /\ last_speech' = last_speech \cup {u}
         \* both branches end in _cancel_silence_task(user_id)
         /\ timers' = MarkSpoke(CancelTimers({silence_tasks[u]} \ {0}), u)
         /\ silence_tasks' = [silence_tasks EXCEPT ![u] = 0]
         /\ IF Overflows(u, len)
            THEN /\ speaking' = [speaking EXCEPT ![u] = FALSE]
                 /\ CreateTask("flush", u, 0)
                 /\ buffers' = buffers
            ELSE /\ speaking' = [speaking EXCEPT ![u] = TRUE]
                 /\ buffers' = [buffers EXCEPT ![u] = @ + len]
                 /\ UNCHANGED taskVars
    ELSE IF speaking[u]
    THEN /\ buffers' = [buffers EXCEPT ![u] = @ + len]
         /\ IF silence_tasks[u] = 0
            THEN \* _start_silence_check(user_id)
                 /\ FreeTimers # {}
                 /\ LET k == CHOOSE j \in FreeTimers : \A i \in FreeTimers : j <= i
                    IN  /\ timers' = [timers EXCEPT
                                         ![k] = [user |-> u, st |-> "new", spoke |-> FALSE]]
                        /\ silence_tasks' = [silence_tasks EXCEPT ![u] = k]
            ELSE UNCHANGED <<silence_tasks, timers>>
         /\ UNCHANGED <<speaking, last_speech, taskVars>>
    ELSE UNCHANGED <<buffers, speaking, last_speech, silence_tasks, timers, taskVars>>

\* _flush_buffer up to the callback: how the task leaves it
FlushOutcome(task) ==
    IF buffers[task.user] = 0 THEN "done"
    ELSE IF TooShort(buffers[task.user]) THEN "done"
    ELSE "called"

(***************************************************************************)
(* VoiceSession: barge-in handlers.                                        *)
(***************************************************************************)
BargeInAnyTime(rms) == ~interrupted /\ rms > PLAYBACK_SPEECH_THRESHOLD

\* _on_bridge_audio: "if self._sink.playback_active and not self._interrupted"
\* and "if rms > PLAYBACK_SPEECH_THRESHOLD"
BargeInCondition(rms) ==
    playback_active /\ ~interrupted /\ rms > PLAYBACK_SPEECH_THRESHOLD

\* _on_speaking_start: "if self._sink.playback_active and not self._interrupted"
EarlyBargeInCondition == playback_active /\ ~interrupted

\* self._interrupted = True; await self.bridge.stop_playing(guild, fade=True)
Interrupt ==
    /\ interrupted' = TRUE
    /\ flag_sets' = flag_sets + 1
    /\ frames' = stop_playing(frames, TRUE)

\* _on_bridge_audio(user_id, pcm, guild_id)
OnBridgeAudio(u, rms, len) ==
    /\ is_active
    /\ len % 2 = 0
    /\ IF BargeInCondition(rms)
       THEN Interrupt
       ELSE UNCHANGED <<interrupted, flag_sets, frames>>
    /\ process_segment(u, rms, len)
    /\ UNCHANGED <<sinkVars, is_active, stop_pc, is_playing, partial,
                   lock_owner, lock_waiters, runVars,
                   enq, quiet, lock_order, llm_request>>
    /\ UNCHANGED extVars

\* _on_speaking_start(user_id, rms, guild_id)
OnSpeakingStart ==
    /\ is_active
    /\ EarlyBargeInCondition
    /\ Interrupt
    /\ UNCHANGED <<sinkVars, taskVars, is_active, stop_pc, is_playing, partial,
                   lock_owner, lock_waiters, runVars,
                   enq, quiet, lock_order, llm_request>>
    /\ UNCHANGED extVars

(***************************************************************************)
(* VoiceSession._on_audio_chunk: gates and the processing lock.            *)
(***************************************************************************)
SetPc(t, p) == [tasks EXCEPT ![t].pc = p]

\* a task that has ended leaves nothing behind but how it ended
Ended(task, final) ==
    [kind |-> "none", user |-> 0, len |-> 0, epoch |-> 0, pc |-> final]

\* a task past the checks of _process_raw_segment: its epoch argument is dead
Past(t, p) == [tasks EXCEPT ![t].pc = p, ![t].epoch = 0]

EndTask(t, final) == [tasks EXCEPT ![t] = Ended(tasks[t], final)]

Remove(w, x) == SelectSeq(w, LAMBDA y : y # x)

LockFreeAlways == TRUE

\* asyncio.Lock.acquire() takes the lock at once only if it is free and
\* nobody is queued for it
LockFree == lock_owner = 0 /\ lock_waiters = <<>>

\* asyncio.Lock.release() wakes the waiter that has queued longest
NextWaiter(w) == Head(w)

\* the utterance is from a user not in the auth store, the configuration
\* requires the wake word of such users, and no detector answered true
Unverified(is_authorized, require_ww, has_ww, detect) ==
    ~is_authorized /\ require_ww /\ ~(has_ww /\ detect)

GatePassAuthorizedOnly(is_authorized, require_ww, has_ww, members, detect) ==
    ~(is_authorized /\ has_ww /\ members > 2 /\ ~detect)

\* the authorization and wake-word gates in front of the lock
GatePass(is_authorized, require_ww, has_ww, members, detect) ==
    /\ ~(~is_authorized /\ require_ww /\ (~has_ww \/ ~detect))
    /\ ~(is_authorized /\ has_ww /\ members > 2 /\ ~detect)

\* first statements inside the lock: reset the flag, start the thinking sound
EnterSection(t) ==
    /\ interrupted' = FALSE
    /\ flag_sets' = 0
    /\ lock_order' = Append(lock_order, t)
    /\ enq' = <<>>
    /\ is_playing' = (is_active \/ is_playing)
    /\ frames' = IF is_active THEN <<ThinkingFrame>> ELSE <<>>
    /\ llm_request' = <<>>

\* leaving "async with self._processing_lock": the task ends with pc final
ReleaseLock(t, final) ==
    LET w == IF lock_waiters = <<>> THEN 0 ELSE NextWaiter(lock_waiters)
    IN  /\ lock_owner' = w
        /\ lock_waiters' = Remove(lock_waiters, w)
        /\ tasks' = [u \in TaskIds |->
                        IF u = t THEN Ended(tasks[u], final)
                        ELSE IF u = w THEN [tasks[u] EXCEPT !.pc = "acquired"]
                        ELSE tasks[u]]
        /\ pipeline_tasks' = pipeline_tasks \ {t}
        /\ drained' = drained \ {t}

\* the locals of a run go out of scope
ResetLocals ==
    /\ text' = <<>>
    /\ sentence_buf' = <<>>
    /\ full_response' = <<>>
    /\ first_sentence' = TRUE
    /\ sentence_queue' = <<>>
    /\ audio_queue' = <<>>
    /\ tts_pc' = "none"
    /\ tts_item' = SENTINEL
    /\ play_pc' = "none"
    /\ play_item' = SENTINEL
    /\ ndeltas' = 0
    /\ run_exc' = "none"
    /\ run_owner' = 0

\* the history kept per run starts afresh
ResetRunHistory ==
    /\ frames' = <<>>
    /\ enq' = <<>>
    /\ llm_request' = <<>>

LastReady(r) == r[Len(r)]

\* the event loop runs the tasks made by loop.create_task in creation order
FirstReady(r) == Head(r)

\* First step of a task created by process_segment: _process_raw_segment up
\* to the callback, then _on_audio_chunk up to the lock.  Nothing in between
\* suspends, and the event loop starts tasks in creation order.
TaskStart ==
    /\ ready # <<>>
    /\ LET t == FirstReady(ready) IN
       /\ tasks[t].kind = "segment"
       /\ ready' = Remove(ready, t)
       /\ nextTask' = nextTask
       /\ \E is_authorized, require_ww, has_ww, detect \in BOOLEAN, members \in {2, 3} :
            LET called == SegmentOutcome(tasks[t]) = "called"
                proceeds == /\ called
                            /\ is_active
                            /\ GatePass(is_authorized, require_ww, has_ww, members, detect)
            IN  /\ quiet' = quiet
                /\ gate' = IF /\ called /\ is_active
                              /\ Unverified(is_authorized, require_ww, has_ww, detect)
                           THEN [task |-> t, unverified |-> TRUE,
                                 \* line 594: notify_activity(guild.id)
                                 notified |-> proceeds]
                           ELSE NoGate
                /\ IF ~proceeds
                   THEN /\ tasks' = EndTask(t, IF called THEN "done"
                                                 ELSE SegmentOutcome(tasks[t]))
                        /\ pipeline_tasks' = pipeline_tasks \ {t}
                        /\ drained' = drained \ {t}
                        /\ UNCHANGED <<lock_owner, lock_waiters, interrupted, flag_sets,
                                       lock_order, enq, is_playing, frames, llm_request>>
                   ELSE IF LockFree
                   THEN /\ lock_owner' = t
                        /\ tasks' = Past(t, "stt")
                        /\ EnterSection(t)
                        /\ UNCHANGED <<lock_waiters, pipeline_tasks, drained>>
                   ELSE /\ lock_waiters' = Append(lock_waiters, t)
                        /\ tasks' = Past(t, "lockwait")
                        /\ UNCHANGED <<lock_owner, pipeline_tasks, interrupted, flag_sets,
                                       lock_order, enq, is_playing, frames, llm_request,
                                       drained>>
    /\ UNCHANGED <<sinkVars, is_active, stop_pc, partial, runVars>>
    /\ UNCHANGED <<mgrVars, brVars, idVars, connVars, segVars, splitVars, wakeVars>>

\* a task that waited for the lock is resumed as its holder
RunResume(t) ==
    /\ tasks[t].pc = "acquired"
    /\ lock_owner = t
    /\ tasks' = SetPc(t, "stt")
    /\ EnterSection(t)
    /\ UNCHANGED <<sinkVars, ready, nextTask, pipeline_tasks, is_active, stop_pc,
                   partial, lock_owner, lock_waiters, runVars, quiet>>
    /\ UNCHANGED extVars

(***************************************************************************)
(* VoiceSession._on_audio_chunk: STT and the LLM request.                  *)
(***************************************************************************)
\* results of SpeechToText.transcribe explored
SttResults == {<<>>, <<" ", "a">>, <<"h", "i">>}

\* "if not text or len(text.strip()) < 2"
NoSpeech(txt) == txt = <<>> \/ Len(Strip(txt)) < 2

PreambleHead == <<"(The user interrupted your previous response. You had said: ", "\"">>
PreambleTail == <<"\"", " before being cut off. The user may want to redirect or follow up.) ">>

\* effective_text = interrupted_context + text if interrupted_context else text
EffectiveText(p, txt) ==
    IF p # <<>> THEN PreambleHead \o p \o PreambleTail \o txt ELSE txt

PartialKept(p) == p

\* _interrupted_partial_response after the context has been built
PartialAfterRequest(p) == <<>>

\* transcribe() raised: the exception leaves the lock section
RunSttRaise(t) ==
    /\ tasks[t].pc = "stt"
    /\ ReleaseLock(t, "done")
    /\ ResetRunHistory
    /\ UNCHANGED <<sinkVars, ready, nextTask, is_active, stop_pc, is_playing,
                   interrupted, partial, runVars, quiet, flag_sets, lock_order>>
    /\ UNCHANGED <<mgrVars, brVars, idVars, gateVars, connVars, segVars, splitVars, wakeVars>>

\* transcribe() returned txt
RunSttDone(t, txt) ==
    /\ tasks[t].pc = "stt"
    /\ IF NoSpeech(txt)
       THEN \* _stop_thinking_sound(); return
            /\ IF is_playing
               THEN /\ frames' = stop_playing(frames, FALSE)
                    /\ is_playing' = FALSE
                    /\ tasks' = SetPc(t, "stt_stop")
                    /\ UNCHANGED <<lock_owner, lock_waiters, pipeline_tasks>>
                    /\ UNCHANGED <<enq, llm_request>>
                    /\ drained' = drained \ {t}
               ELSE /\ ReleaseLock(t, "done")
                    /\ ResetRunHistory
                    /\ is_playing' = is_playing
            /\ UNCHANGED <<partial, playback_active, runVars>>
       ELSE /\ llm_request' = EffectiveText(partial, txt)
            /\ partial' = PartialAfterRequest(partial)
            /\ playback_active' = TRUE
            /\ text' = txt
            /\ sentence_buf' = <<>>
            /\ full_response' = <<>>
            /\ first_sentence' = TRUE
            /\ sentence_queue' = <<>>
            /\ audio_queue' = <<>>
            /\ tts_pc' = "get"
            /\ play_pc' = "get"
            /\ run_owner' = t
            /\ tasks' = SetPc(t, "llm")
            /\ drained' = drained \ {t}
            /\ UNCHANGED <<tts_item, play_item, ndeltas, run_exc, frames, is_playing,
                           lock_owner, lock_waiters, pipeline_tasks, enq>>
    /\ UNCHANGED <<buffers, speaking, last_speech, silence_tasks, timers, epoch,
                   ready, nextTask, is_active, stop_pc, interrupted,
                   quiet, flag_sets, lock_order>>
    /\ UNCHANGED <<mgrVars, brVars, idVars, gateVars, connVars, segVars, splitVars, wakeVars>>

\* the sleep in _stop_thinking_sound is over; return
RunSttStopDone(t) ==
    /\ tasks[t].pc = "stt_stop"
    /\ ReleaseLock(t, "done")
    /\ ResetRunHistory
    /\ UNCHANGED <<sinkVars, ready, nextTask, is_active, stop_pc, is_playing,
                   interrupted, partial, runVars, quiet, flag_sets, lock_order>>
    /\ UNCHANGED <<mgrVars, brVars, idVars, gateVars, connVars, segVars, splitVars, wakeVars>>

(***************************************************************************)
(* VoiceSession._on_audio_chunk: the LLM read loop and the finally block.  *)
(***************************************************************************)
\* The LLM response explored: its k-th delta.  Odd deltas complete a sentence,
\* even deltas start a new one, so that a response ends either at a sentence
\* boundary or with text that only the final flush enqueues.
Delta(k) == IF k % 2 = 1 THEN <<"A", ".">> ELSE <<" ", "b">>

\* sentences as queue items, numbered in the order they are enqueued
Items(sents, base) == [k \in 1..Len(sents) |-> [i |-> base + k, s |-> sents[k]]]

\* "if self._interrupted and full_response" - the partial response is saved
SavesPartial == interrupted /\ full_response # <<>>

\* the finally block up to its first suspension, entered with the sentence
\* queue q and the pending exception exc
FinallyPc == IF first_sentence /\ is_playing THEN "fin_stop" ELSE "await_tts"

FinallyBegin(q, exc) ==
    /\ run_exc' = exc
    /\ IF first_sentence /\ is_playing
       THEN \* await self._stop_thinking_sound()
            /\ frames' = stop_playing(frames, FALSE)
            /\ is_playing' = FALSE
            /\ sentence_queue' = q
       ELSE \* await sentence_queue.put(_SENTINEL); await tts_task
            /\ sentence_queue' = Append(q, SENTINEL)
            /\ UNCHANGED <<frames, is_playing>>

\* the read loop is left by exhaustion or by break: flush the rest of the
\* buffer, save the partial response, enter the finally block
AfterLoop(t) ==
    LET remaining == Strip(sentence_buf)
        flush == remaining # <<>> /\ ~interrupted
        item == [i |-> Len(enq) + 1, s |-> remaining]
    IN  /\ enq' = IF flush THEN Append(enq, item) ELSE enq
        /\ partial' = IF SavesPartial THEN full_response ELSE partial
        /\ FinallyBegin(IF flush THEN Append(sentence_queue, item)
                                 ELSE sentence_queue, "none")
        /\ tasks' = SetPc(t, FinallyPc)

\* the stream yields delta d
RunDelta(t) ==
    /\ tasks[t].pc = "llm"
    /\ ndeltas < MaxDeltas
    /\ ndeltas' = ndeltas + 1
    /\ IF interrupted
       THEN \* break
            /\ AfterLoop(t)
            /\ UNCHANGED <<sentence_buf, full_response>>
       ELSE LET d == Delta(ndeltas + 1)
                ex == ExtractSentences(sentence_buf \o d, <<>>)
                items == Items(ex.sentences, Len(enq))
            IN  /\ sentence_buf' = ex.rest
                /\ full_response' = full_response \o d
                /\ sentence_queue' = sentence_queue \o items
                /\ enq' = enq \o items
                /\ UNCHANGED <<partial, run_exc, frames, is_playing, tasks>>
    /\ UNCHANGED <<sinkVars, ready, nextTask, pipeline_tasks, is_active, stop_pc,
                   interrupted, lock_owner, lock_waiters, text, first_sentence,
                   audio_queue, tts_pc, tts_item, play_pc, play_item, run_owner,
                   quiet, flag_sets, lock_order, llm_request>>
    /\ UNCHANGED extVars

\* the stream is exhausted
RunStreamEnd(t) ==
    /\ tasks[t].pc = "llm"
    /\ AfterLoop(t)
    /\ UNCHANGED <<sinkVars, ready, nextTask, pipeline_tasks, is_active, stop_pc,
                   interrupted, lock_owner, lock_waiters, text, sentence_buf,
                   full_response, first_sentence, audio_queue, tts_pc, tts_item,
                   play_pc, play_item, ndeltas, run_owner,
                   quiet, flag_sets, lock_order, llm_request>>
    /\ UNCHANGED extVars

\* the stream raises: straight to the finally block
RunStreamRaise(t) ==
    /\ tasks[t].pc = "llm"
    /\ FinallyBegin(sentence_queue, "error")
    /\ tasks' = SetPc(t, FinallyPc)
    /\ UNCHANGED <<sinkVars, ready, nextTask, pipeline_tasks, is_active, stop_pc,
                   interrupted, partial, lock_owner, lock_waiters, text, sentence_buf,
                   full_response, first_sentence, audio_queue, tts_pc, tts_item,
                   play_pc, play_item, ndeltas, run_owner,
                   enq, quiet, flag_sets, lock_order, llm_request>>
    /\ UNCHANGED extVars

\* finally: the sleep of _stop_thinking_sound is over; put the sentinel
RunFinStopDone(t) ==
    /\ tasks[t].pc = "fin_stop"
    /\ sentence_queue' = Append(sentence_queue, SENTINEL)
    /\ tasks' = SetPc(t, "await_tts")
    /\ UNCHANGED <<sinkVars, ready, nextTask, pipeline_tasks, sessVars, text,
                   sentence_buf, full_response, first_sentence, audio_queue,
                   tts_pc, tts_item, play_pc, play_item, ndeltas, run_exc,
                   run_owner, histVars>>
    /\ UNCHANGED extVars

\* finally: set_playback_active(False), then the lock section is left
Finish(t) ==
    /\ playback_active' = FALSE
    /\ ReleaseLock(t, IF run_exc = "cancelled" THEN "cancelled" ELSE "done")
    /\ ResetLocals
    /\ ResetRunHistory
    /\ UNCHANGED <<buffers, speaking, last_speech, silence_tasks, timers, epoch,
                   ready, nextTask, is_active, stop_pc, is_playing, interrupted,
                   partial, quiet, flag_sets, lock_order>>

\* finally: "await tts_task" returns
RunAwaitTts(t) ==
    /\ tasks[t].pc = "await_tts"
    /\ tts_pc = "done"
    /\ IF play_pc = "done"
       THEN Finish(t)
       ELSE /\ tasks' = SetPc(t, "await_play")
            /\ UNCHANGED <<sinkVars, ready, nextTask, pipeline_tasks, sessVars,
                           runVars, histVars, drained>>
    /\ UNCHANGED <<mgrVars, brVars, idVars, gateVars, connVars, segVars, splitVars, wakeVars>>

\* finally: "await play_task" returns
RunAwaitPlay(t) ==
    /\ tasks[t].pc = "await_play"
    /\ play_pc = "done"
    /\ Finish(t)
    /\ UNCHANGED <<mgrVars, brVars, idVars, gateVars, connVars, segVars, splitVars, wakeVars>>

(***************************************************************************)
(* The two workers of a run.                                               *)
(***************************************************************************)
QueueLast(q) == Len(q)

\* asyncio.Queue.get() returns the oldest item
QueueIndex(q) == 1

RemoveAt(q, i) == SubSeq(q, 1, i - 1) \o SubSeq(q, i + 1, Len(q))

\* _tts_worker: "if not self.is_active or self._interrupted: continue"
TtsSkips == ~is_active \/ interrupted

\* config.tts.sentence_silence_ms > 0: the play worker pauses between sentences
SentenceSilencePositive == TRUE

\* _tts_worker: an item arrives on sentence_queue
TtsGet ==
    /\ tts_pc = "get"
    /\ sentence_queue # <<>>
    /\ LET k == QueueIndex(sentence_queue)
           item == sentence_queue[k]
       IN  /\ sentence_queue' = RemoveAt(sentence_queue, k)
           /\ IF item = SENTINEL
              THEN /\ audio_queue' = Append(audio_queue, SENTINEL)
                   /\ tts_pc' = "done"
                   /\ tts_item' = tts_item
              ELSE IF TtsSkips
              THEN UNCHANGED <<audio_queue, tts_pc, tts_item>>
              ELSE /\ tts_pc' = "synth"
                   /\ tts_item' = item
                   /\ audio_queue' = audio_queue
    /\ UNCHANGED <<sinkVars, taskVars, sessVars, text, sentence_buf, full_response,
                   first_sentence, play_pc, play_item, ndeltas, run_exc, run_owner,
                   histVars>>
    /\ UNCHANGED extVars

\* _tts_worker: _synthesize returned audio (ok) or None
TtsSynthDone(ok) ==
    /\ tts_pc = "synth"
    /\ audio_queue' = IF ok THEN Append(audio_queue, tts_item) ELSE audio_queue
    /\ tts_pc' = "get"
    /\ tts_item' = SENTINEL
    /\ UNCHANGED <<sinkVars, taskVars, sessVars, text, sentence_buf, full_response,
                   first_sentence, sentence_queue, play_pc, play_item, ndeltas,
                   run_exc, run_owner, histVars>>
    /\ UNCHANGED extVars

\* _play_worker from "first_sentence = False" to the suspension in bridge.play
PlaySend(item) ==
    /\ first_sentence' = FALSE
    /\ IF ~is_active
       THEN /\ play_pc' = "get"
            /\ play_item' = SENTINEL
            /\ frames' = frames
       ELSE /\ frames' = Append(frames, PlayFrame(item))
            /\ play_pc' = "playing"
            /\ play_item' = item

\* _play_worker: an item arrives on audio_queue
PlayGet ==
    /\ play_pc = "get"
    /\ audio_queue # <<>>
    /\ LET k == QueueIndex(audio_queue)
           item == audio_queue[k]
       IN  /\ audio_queue' = RemoveAt(audio_queue, k)
           /\ IF item = SENTINEL
              THEN /\ play_pc' = "done"
                   /\ UNCHANGED <<play_item, first_sentence, frames, is_playing>>
              ELSE IF interrupted
              THEN UNCHANGED <<play_pc, play_item, first_sentence, frames, is_playing>>
              ELSE IF first_sentence /\ is_playing
              THEN \* await self._stop_thinking_sound()
                   /\ frames' = stop_playing(frames, FALSE)
                   /\ is_playing' = FALSE
                   /\ play_pc' = "stop_sleep"
                   /\ play_item' = item
                   /\ first_sentence' = first_sentence
              ELSE /\ PlaySend(item)
                   /\ is_playing' = is_playing
    /\ UNCHANGED <<sinkVars, taskVars, is_active, stop_pc, interrupted, partial,
                   lock_owner, lock_waiters, text, sentence_buf, full_response,
                   sentence_queue, tts_pc, tts_item, ndeltas, run_exc, run_owner,
                   enq, quiet, flag_sets, lock_order, llm_request>>
    /\ UNCHANGED extVars

\* _play_worker: the sleep of _stop_thinking_sound is over
PlayStopSleepDone ==
    /\ play_pc = "stop_sleep"
    /\ PlaySend(play_item)
    /\ UNCHANGED <<sinkVars, taskVars, sessVars, text, sentence_buf, full_response,
                   sentence_queue, audio_queue, tts_pc, tts_item, ndeltas, run_exc,
                   run_owner, enq, quiet, flag_sets, lock_order, llm_request>>
    /\ UNCHANGED extVars

\* the tasks process_segment has created that have not taken the lock yet
Dispatched ==
    {t \in TaskIds : tasks[t].kind = "segment" /\ tasks[t].pc \in {"ready", "lockwait"}}

\* _play_worker: bridge.play returns (play_done or timeout)
PlayDone ==
    /\ play_pc = "playing"
    /\ play_item' = SENTINEL
    /\ IF interrupted
       THEN /\ play_pc' = "get"
            /\ UNCHANGED <<buffers, speaking, last_speech, silence_tasks, timers,
                           epoch, pipeline_tasks>>
       ELSE /\ epoch < MaxEpoch
            /\ drain
            /\ play_pc' = IF SentenceSilencePositive THEN "pause" ELSE "get"
    /\ drained' = IF interrupted THEN drained ELSE drained \cup Dispatched
    /\ UNCHANGED <<playback_active, tasks, ready, nextTask, sessVars, text, sentence_buf,
                   full_response, first_sentence, sentence_queue, audio_queue,
                   tts_pc, tts_item, ndeltas, run_exc, run_owner, histVars>>
    /\ UNCHANGED <<mgrVars, brVars, idVars, gateVars, connVars, segVars, splitVars, wakeVars>>

\* _play_worker: the pause between sentences is over
PlayPauseDone ==
    /\ play_pc = "pause"
    /\ play_pc' = "get"
    /\ UNCHANGED <<sinkVars, taskVars, sessVars, text, sentence_buf, full_response,
                   first_sentence, sentence_queue, audio_queue, tts_pc, tts_item,
                   play_item, ndeltas, run_exc, run_owner, histVars>>
    /\ UNCHANGED extVars

(***************************************************************************)
(* VoiceSession.stop() and StreamingSink.cleanup().                        *)
(***************************************************************************)
\* cleanup(): every silence timer and every pipeline task is cancelled.
\* CancelledError is raised at the await a task is suspended in: a run inside
\* the LLM read loop goes on in its finally block; a run suspended inside the
\* finally block leaves it at once (cancelling the worker it awaits).
cleanup ==
    LET h == lock_owner
        hpc == IF h = 0 THEN "none" ELSE tasks[h].pc
        continues == hpc = "llm"
    IN  /\ timers' = CancelTimers(Registered)
        /\ silence_tasks' = [u \in Users |-> 0]
        /\ buffers' = [u \in Users |-> 0]
        /\ pipeline_tasks' = {}
        /\ ready' = <<>>
        /\ lock_waiters' = <<>>
        /\ lock_owner' = IF continues THEN h ELSE 0
        /\ tasks' = [u \in TaskIds |->
                        IF tasks[u].kind = "none" THEN tasks[u]
                        ELSE IF u = h /\ continues
                        THEN [tasks[u] EXCEPT !.pc = FinallyPc]
                        ELSE Ended(tasks[u], "cancelled")]
        /\ IF continues
           THEN /\ FinallyBegin(sentence_queue, "cancelled")
                /\ UNCHANGED <<tts_pc, play_pc>>
           ELSE /\ UNCHANGED <<run_exc, frames, is_playing, sentence_queue>>
                /\ tts_pc' = IF hpc = "await_tts" THEN "cancelled" ELSE tts_pc
                /\ play_pc' = IF hpc = "await_play" THEN "cancelled" ELSE play_pc

\* stop(): is_active is cleared and the callbacks are unregistered; the
\* coroutine then waits for pending tasks, the bridge and the LLM backend
StopBegin ==
    /\ is_active
    /\ stop_pc = "idle"
    /\ is_active' = FALSE
    /\ stop_pc' = "waiting"
    /\ UNCHANGED <<sinkVars, taskVars, is_playing, interrupted, partial,
                   lock_owner, lock_waiters, runVars, histVars>>
    /\ UNCHANGED extVars

\* stop(): self._sink.cleanup().  The step is never forced: a stop() that
\* fails before line 461 (the bridge of src/ has no unregister_speaking_callback)
\* is the behaviour in which this action does not occur.
StopCleanup ==
    /\ stop_pc = "waiting"
    /\ stop_pc' = "stopped"
    /\ cleanup
    /\ UNCHANGED <<speaking, last_speech, playback_active, epoch, nextTask,
                   is_active, interrupted, partial, text, sentence_buf,
                   full_response, first_sentence, audio_queue, tts_item,
                   play_item, ndeltas, run_owner,
                   enq, quiet, flag_sets, lock_order, llm_request>>
    /\ UNCHANGED extVars

(***************************************************************************)
(* VoiceManager: sessions of one guild, serialized by the guild's lock.    *)
(* A caller is a command handler, an event handler or a timer task.        *)
(***************************************************************************)
\* the manager's task bookkeeping as one value, so that the statements of a
\* handler can be applied one after the other
MgrState == [cs |-> callers, lock |-> guild_lock, ws |-> guild_waiters,
             inact |-> inactivity]

\* a caller slot for a new handler or task: the lowest idle one
FreeCallers(cs) == {c \in CallerIds : cs[c].pc = "idle"}
FreeCaller(cs) == CHOOSE c \in FreeCallers(cs) : \A d \in FreeCallers(cs) : c <= d

\* the pc a waiting caller resumes at once the lock is its own
Granted(pc) == IF pc = "j_lock" THEN "j_granted" ELSE "l_granted"

\* asyncio.Lock.release(): the longest waiting caller is woken and owns the lock
GuildRelease(m) ==
    IF m.ws = <<>> THEN [m EXCEPT !.lock = 0]
    ELSE LET w == Head(m.ws) IN
         [m EXCEPT !.lock = w, !.ws = Tail(m.ws),
                   !.cs = [m.cs EXCEPT ![w].pc = Granted(m.cs[w].pc)]]

\* a caller returns (or its exception leaves the handler)
Return(m, c) == [m EXCEPT !.cs = [m.cs EXCEPT ![c] = IdleCaller]]

\* _cancel_inactivity_timer, called by caller me: the task is popped and, if
\* not done, cancelled.  A task asleep or queued for the lock ends at once; one
\* that was just handed the lock passes it on; the running task itself gets
\* CancelledError at its next suspension.
_cancel_inactivity_timer(m, me) ==
    LET t == m.inact
        popped == [m EXCEPT !.inact = 0]
    IN  IF t = 0 THEN m
        ELSE IF t = me THEN [popped EXCEPT !.cs = [m.cs EXCEPT ![me].cancel = TRUE]]
        ELSE IF m.cs[t].pc = "l_granted" THEN GuildRelease(Return(popped, t))
        ELSE [Return(popped, t) EXCEPT
                 !.ws = SelectSeq(m.ws, LAMBDA w : w # t)]

\* _reset_inactivity_timer: cancel the old task, create a new one (the
\* configured timeout is positive)
_reset_inactivity_timer(m, me) ==
    LET n == _cancel_inactivity_timer(m, me)
    IN  [n EXCEPT !.inact = TimerTask,
                  !.cs = [n.cs EXCEPT ![TimerTask] =
                             [IdleCaller EXCEPT !.op = "timer", !.pc = "t_sleep"]]]

\* the manager's bookkeeping after the handler's statements
SetMgr(m) ==
    /\ callers' = m.cs
    /\ guild_lock' = m.lock
    /\ guild_waiters' = m.ws
    /\ inactivity' = m.inact

\* register_audio_callback and its two siblings: one subscriber per kind
register_audio_callback(cb, s) == [cb EXCEPT !["audio"] = s]
register_speaking_callback(cb, s) == [cb EXCEPT !["speaking"] = s]
register_reconnect_callback(cb, s) == [cb EXCEPT !["reconnect"] = s]

\* join_channel after a failed start: self._sessions.pop(guild_id, None)
SessionsKept(cur) == cur
SessionsPop(cur) == 0

\* channels an admin puts on the allowlist
AllowlistChannels == {1}

\* auth_store.is_channel_allowed: empty allowlist allows every channel
is_channel_allowed(ch) == allowlist = {} \/ ch \in allowlist

GuildLockFreeAlways(m) == TRUE

\* asyncio.Lock.acquire() returns at once only if the lock is free and nobody
\* is queued for it
GuildLockFree(m) == m.lock = 0 /\ m.ws = <<>>

\* stop(), up to its first await: is_active is cleared and the callbacks of
\* the guild are unregistered
StopSync(vs, s) ==
    [vs EXCEPT ![s].active = FALSE, ![s].st = "stopping", ![s].empty = FALSE]

\* stop() ends: it returned, raised, or was cancelled at an await
StopEnd(vs, s, outcome) ==
    [vs EXCEPT ![s].st = "ended", ![s].vc = FALSE, ![s].channel = 0,
               ![s].empty = FALSE]

\* the id of a new VoiceSession object: the lowest one that names no object
\* anybody still refers to
FreeSessions(vs, cs) ==
    {s \in SessionIds : /\ vs[s].st \in {"none", "ended"}
                        /\ \A c \in TaskSlots : cs[c].sid # s}
NewSession(vs, cs) ==
    CHOOSE s \in FreeSessions(vs, cs) : \A r \in FreeSessions(vs, cs) : s <= r

\* start(), lines 272-302: channel.connect returns the session's voice client
\* (a stale one is disconnected first) and the join frame is sent
Attach(a) == [vc |-> TRUE, join |-> TRUE]

\* stop(), lines 430-443: the disconnect frame is sent and the voice client is
\* disconnected
Detach(a) == [vc |-> FALSE, join |-> FALSE]

\* start(), lines 304-307, and join_channel, lines 176-178: wait_ready was not
\* ready; start() raises RuntimeError and join_channel pops the session.
\* Nothing is sent to the bridge and the voice client is left as it is.
StartTimedOut(a) == a

\* join_channel: "session = VoiceSession(...); self._sessions[guild_id] =
\* session; await session.start()" up to the first await of start().  A bridge
\* that is not connected makes start() raise at once; join_channel pops the
\* session and the exception leaves the lock.
CreateAndStart(m, vs, c, connected) ==
    LET s == NewSession(vs, m.cs) IN
    /\ FreeSessions(vs, m.cs) # {}
    /\ IF connected
       THEN /\ sessions' = s
            /\ vsess' = [vs EXCEPT ![s] = [st |-> "starting", active |-> FALSE,
                                           channel |-> m.cs[c].chan, vc |-> FALSE,
                                           empty |-> FALSE]]
            /\ SetMgr([m EXCEPT !.cs = [m.cs EXCEPT ![c].pc = "j_start", ![c].sid = s,
                                                     ![c].chan = 0]])
       ELSE /\ sessions' = SessionsPop(s)
            /\ vsess' = [vs EXCEPT ![s] = [NoSession EXCEPT !.st = "ended"]]
            /\ SetMgr(GuildRelease(Return(m, c)))

\* join_channel, first statements inside the lock: an existing session is
\* stopped first
EnterJoin(m, c, connected) ==
    IF sessions # 0
    THEN /\ vsess' = StopSync(vsess, sessions)
         /\ callbacks' = NoCallbacks
         /\ SetMgr([m EXCEPT !.cs = [m.cs EXCEPT ![c].pc = "j_stop", ![c].sid = sessions]])
         /\ UNCHANGED sessions
    ELSE /\ CreateAndStart(m, vsess, c, connected)
         /\ UNCHANGED callbacks

\* leave_channel, first statements inside the lock: the timer is cancelled and
\* the session, if any, is popped and stopped
EnterLeave(m, c) ==
    LET n == _cancel_inactivity_timer(m, c) IN
    IF sessions # 0
    THEN /\ sessions' = 0
         /\ vsess' = StopSync(vsess, sessions)
         /\ callbacks' = NoCallbacks
         /\ SetMgr([n EXCEPT !.cs = [n.cs EXCEPT ![c].pc = "l_stop", ![c].sid = sessions]])
    ELSE /\ SetMgr(GuildRelease(Return(n, c)))
         /\ UNCHANGED <<sessions, vsess, callbacks>>

\* "async with self._get_guild_lock(guild_id)" in join_channel
join_channel(m, c, connected) ==
    IF GuildLockFree(m)
    THEN EnterJoin([m EXCEPT !.lock = c], c, connected)
    ELSE /\ SetMgr([m EXCEPT !.ws = Append(m.ws, c),
                             !.cs = [m.cs EXCEPT ![c].pc = "j_lock"]])
         /\ UNCHANGED <<sessions, vsess, callbacks>>

\* "async with self._get_guild_lock(guild_id)" in leave_channel
leave_channel(m, c) ==
    IF GuildLockFree(m)
    THEN EnterLeave([m EXCEPT !.lock = c], c)
    ELSE /\ SetMgr([m EXCEPT !.ws = Append(m.ws, c),
                             !.cs = [m.cs EXCEPT ![c].pc = "l_lock"]])
         /\ UNCHANGED <<sessions, vsess, callbacks>>

\* a new handler: caller slot c starts running op for channel chan
Call(c, op, chan) ==
    [MgrState EXCEPT !.cs = [callers EXCEPT ![c] =
        [IdleCaller EXCEPT !.op = op, !.chan = chan,
                           !.off = ~is_channel_allowed(chan)]]]

\* /join and /rejoin (commands/voice.py): join_channel for the user's channel.
\* connected is bridge.is_connected when start() tests it.
JoinCommand(chan, connected) ==
    /\ FreeCallers(callers) # {}
    /\ join_channel(Call(FreeCaller(callers), "join", chan), FreeCaller(callers), connected)
    /\ UNCHANGED <<allowlist, offlist, pipelineVars, brVars, idVars, gateVars, connVars, segVars, splitVars, wakeVars, drainVars>>

\* a member entered channel chan: the session's channel is not empty
Entered(vs, chan) ==
    IF sessions # 0 /\ vs[sessions].channel = chan
    THEN [vs EXCEPT ![sessions].empty = FALSE] ELSE vs

\* a member entered channel chan: _try_join
AutoJoin(chan, connected) ==
    /\ FreeCallers(callers) # {}
    /\ LET c == FreeCaller(callers) IN
       IF ~is_channel_allowed(chan)
       THEN /\ vsess' = Entered(vsess, chan)
            /\ UNCHANGED <<sessions, callbacks, guild_lock, guild_waiters,
                           callers, inactivity>>
       ELSE IF sessions # 0
       THEN /\ IF vsess[sessions].vc /\ vsess[sessions].channel # chan
               THEN SetMgr([Call(c, "auto", chan) EXCEPT
                               !.cs[c].pc = "moving", !.cs[c].sid = sessions])
               ELSE SetMgr(_cancel_inactivity_timer(MgrState, 0))
            /\ vsess' = Entered(vsess, chan)
            /\ UNCHANGED <<sessions, callbacks>>
       ELSE join_channel(Call(c, "auto", chan), c, connected)
    /\ UNCHANGED <<allowlist, offlist, pipelineVars, brVars, idVars, gateVars, connVars, segVars, splitVars, wakeVars, drainVars>>

\* _try_join: "await session.move_to(channel)" is over (moved: the voice
\* client was connected), then the timer is cancelled
MoveDone(c, moved) ==
    /\ callers[c].pc = "moving"
    /\ vsess' = IF moved /\ vsess[callers[c].sid].st # "ended"
                THEN [vsess EXCEPT ![callers[c].sid].channel = callers[c].chan,
                                   ![callers[c].sid].empty = FALSE]
                ELSE vsess
    /\ SetMgr(_cancel_inactivity_timer(Return(MgrState, c), 0))
    /\ UNCHANGED <<sessions, callbacks, allowlist, offlist, pipelineVars, brVars, idVars, gateVars, connVars, segVars, splitVars, wakeVars, drainVars>>

\* a caller that queued for the guild lock now holds it and runs on
Resume(c, connected) ==
    /\ callers[c].pc \in {"j_granted", "l_granted"}
    /\ IF callers[c].pc = "j_granted"
       THEN EnterJoin(MgrState, c, connected)
       ELSE EnterLeave(MgrState, c)
    /\ UNCHANGED <<allowlist, offlist, pipelineVars, brVars, idVars, gateVars, connVars, segVars, splitVars, wakeVars, drainVars>>

\* join_channel: stop() of the replaced session is over (it returned or
\* raised); "finally: self._sessions.pop(guild_id, None)", then the new session
JoinStopDone(c, connected) ==
    /\ callers[c].pc = "j_stop"
    /\ CreateAndStart(MgrState, StopEnd(vsess, callers[c].sid, "returned"), c, connected)
    /\ attached' = Detach(attached)
    /\ UNCHANGED <<callbacks, allowlist, offlist, pipelineVars, brVars, idVars, gateVars, segVars, splitVars, wakeVars, drainVars>>

\* start(): warm-up, channel.connect and the join frames are over; ok is FALSE
\* when one of them raised.  join_channel pops the session of a failed start.
StartWarmDone(c, ok) ==
    /\ callers[c].pc = "j_start"
    /\ attached' = IF ok THEN Attach(attached) ELSE attached
    /\ IF ok
       THEN /\ vsess' = [vsess EXCEPT ![callers[c].sid].vc = TRUE]
            /\ callers' = [callers EXCEPT ![c].pc = "j_ready"]
            /\ UNCHANGED <<sessions, guild_lock, guild_waiters, inactivity>>
       ELSE /\ vsess' = [vsess EXCEPT ![callers[c].sid].st = "ended",
                                      ![callers[c].sid].channel = 0,
                                      ![callers[c].sid].vc = FALSE,
                                      ![callers[c].sid].empty = FALSE]
            /\ sessions' = SessionsPop(sessions)
            /\ SetMgr(GuildRelease(Return(MgrState, c)))
    /\ UNCHANGED <<callbacks, allowlist, offlist, pipelineVars, brVars, idVars, gateVars, segVars, splitVars, wakeVars, drainVars>>

\* start(): wait_ready is over.  Ready: is_active is set, the callbacks are
\* registered, join_channel resets the inactivity timer and returns.  Not
\* ready: start() raises and join_channel pops the session.
StartReadyDone(c, isready) ==
    /\ callers[c].pc = "j_ready"
    /\ IF isready
       THEN /\ vsess' = [vsess EXCEPT ![callers[c].sid].st = "started",
                                      ![callers[c].sid].active = TRUE]
            /\ callbacks' = register_reconnect_callback(register_speaking_callback(
                                register_audio_callback(callbacks, callers[c].sid),
                                callers[c].sid), callers[c].sid)
            /\ offlist' = IF callers[c].off THEN offlist \cup {callers[c].op}
                          ELSE offlist
            /\ SetMgr(GuildRelease(_reset_inactivity_timer(Return(MgrState, c), 0)))
            /\ UNCHANGED sessions
       ELSE /\ vsess' = [vsess EXCEPT ![callers[c].sid].st = "ended",
                                      ![callers[c].sid].channel = 0,
                                      ![callers[c].sid].vc = FALSE,
                                      ![callers[c].sid].empty = FALSE]
            /\ sessions' = SessionsPop(sessions)
            /\ SetMgr(GuildRelease(Return(MgrState, c)))
            /\ UNCHANGED <<callbacks, offlist>>
    /\ attached' = IF isready THEN attached ELSE StartTimedOut(attached)
    /\ UNCHANGED <<allowlist, pipelineVars, brVars, idVars, gateVars, segVars, splitVars, wakeVars, drainVars>>

\* /leave: only when a session is present and active
LeaveCommand ==
    /\ FreeCallers(callers) # {}
    /\ sessions # 0
    /\ vsess[sessions].active
    /\ leave_channel(Call(FreeCaller(callers), "leave", 0), FreeCaller(callers))
    /\ UNCHANGED <<allowlist, offlist, pipelineVars, brVars, idVars, gateVars, connVars, segVars, splitVars, wakeVars, drainVars>>

\* VoiceManager.cleanup(): leave_channel for the guild of every session
Cleanup ==
    /\ FreeCallers(callers) # {}
    /\ sessions # 0
    /\ leave_channel(Call(FreeCaller(callers), "leave", 0), FreeCaller(callers))
    /\ UNCHANGED <<allowlist, offlist, pipelineVars, brVars, idVars, gateVars, connVars, segVars, splitVars, wakeVars, drainVars>>

\* _check_should_leave, line 225: leave_channel for the emptied channel (vs
\* is vsess with the channel marked empty)
LeaveEmpty(vs) ==
    LET c == FreeCaller(callers)
        m == Call(c, "leave", 0)
    IN  IF GuildLockFree(m)
        THEN leave_channel(m, c)
        ELSE /\ SetMgr([m EXCEPT !.ws = Append(m.ws, c),
                                 !.cs = [m.cs EXCEPT ![c].pc = "l_lock"]])
             /\ vsess' = vs
             /\ UNCHANGED <<sessions, callbacks>>

\* _check_should_leave, line 217: the session has a voice client
HasVoiceClient(vs) == vs[sessions].vc

\* a member left the channel of the session in _sessions:
\* _check_should_leave.  A session without a voice client: return.  No human
\* is left: leave at once; no authorized one: start the short timer.
MemberLeft(humans) ==
    /\ sessions # 0
    /\ humans \/ FreeCallers(callers) # {}
    /\ LET vs == [vsess EXCEPT ![sessions].empty = ~humans] IN
       IF ~HasVoiceClient(vsess)
       THEN /\ vsess' = vs
            /\ UNCHANGED <<sessions, callbacks, guild_lock, guild_waiters,
                           callers, inactivity>>
       ELSE IF humans
       THEN /\ SetMgr(_reset_inactivity_timer(MgrState, 0))
            /\ vsess' = vs
            /\ UNCHANGED <<sessions, callbacks>>
       ELSE LeaveEmpty(vs)
    /\ UNCHANGED <<allowlist, offlist, pipelineVars, brVars, idVars, gateVars, connVars, segVars, splitVars, wakeVars, drainVars>>

\* _inactivity_disconnect: the sleep is over, leave_channel
TimerFire ==
    /\ callers[TimerTask].pc = "t_sleep"
    /\ leave_channel(MgrState, TimerTask)
    /\ UNCHANGED <<allowlist, offlist, pipelineVars, brVars, idVars, gateVars, connVars, segVars, splitVars, wakeVars, drainVars>>

\* leave_channel: stop() is over: it returned, raised, or (a timer task that
\* cancelled itself) got CancelledError at an await; the lock is released
LeaveStopDone(c, outcome) ==
    /\ callers[c].pc = "l_stop"
    /\ outcome = "cancelled" => callers[c].cancel
    /\ vsess' = StopEnd(vsess, callers[c].sid, outcome)
    /\ \E reached \in BOOLEAN :
          /\ outcome # "cancelled" => reached
          /\ attached' = IF reached THEN Detach(attached) ELSE attached
    /\ SetMgr(GuildRelease(Return(MgrState, c)))
    /\ UNCHANGED <<sessions, callbacks, allowlist, offlist, pipelineVars, brVars, idVars, gateVars, segVars, splitVars, wakeVars, drainVars>>

\* notify_activity (an utterance arrived): the inactivity timer starts afresh
NotifyActivity ==
    /\ sessions # 0
    /\ SetMgr(_reset_inactivity_timer(MgrState, 0))
    /\ UNCHANGED <<sessions, vsess, callbacks, allowlist, offlist,
                   pipelineVars, brVars, idVars, gateVars, connVars, segVars, splitVars, wakeVars, drainVars>>

\* /voice-channel-add: a channel is put on the guild's allowlist
VoiceChannelAdd(ch) ==
    /\ ch \notin allowlist
    /\ allowlist' = allowlist \cup {ch}
    /\ UNCHANGED <<sessions, vsess, callbacks, guild_lock, guild_waiters, callers,
                   inactivity, offlist, pipelineVars, brVars, idVars, gateVars, connVars, segVars, splitVars, wakeVars, drainVars>>

MgrNext ==
    \/ \E ch \in Channels, k \in BOOLEAN : JoinCommand(ch, k)
    \/ \E ch \in Channels, k \in BOOLEAN : AutoJoin(ch, k)
    \/ \E c \in CallerIds, moved \in BOOLEAN : MoveDone(c, moved)
    \/ \E c \in TaskSlots, k \in BOOLEAN : Resume(c, k)
    \/ \E c \in CallerIds, k \in BOOLEAN : JoinStopDone(c, k)
    \/ \E c \in CallerIds, ok \in BOOLEAN : StartWarmDone(c, ok)
    \/ \E c \in CallerIds, r \in BOOLEAN : StartReadyDone(c, r)
    \/ LeaveCommand
    \/ Cleanup
    \/ \E humans \in BOOLEAN : MemberLeft(humans)
    \/ TimerFire
    \/ \E c \in TaskSlots, o \in {"returned", "raised", "cancelled"} : LeaveStopDone(c, o)
    \/ NotifyActivity
    \/ \E ch \in AllowlistChannels : VoiceChannelAdd(ch)

MgrSpec == Init /\ [][MgrNext]_vars

(***************************************************************************)
(* The session with its sink, fed by the bridge on the segment path.       *)
(***************************************************************************)
Next ==
    \/ \E u \in Users, rms \in RmsValues, len \in SegLens : OnBridgeAudio(u, rms, len)
    \/ OnSpeakingStart
    \/ TaskStart
    \/ \E t \in TaskIds : RunResume(t)
    \/ \E t \in TaskIds : RunSttRaise(t)
    \/ \E t \in TaskIds, txt \in SttResults : RunSttDone(t, txt)
    \/ \E t \in TaskIds : RunSttStopDone(t)
    \/ \E t \in TaskIds : RunDelta(t)
    \/ \E t \in TaskIds : RunStreamEnd(t)
    \/ \E t \in TaskIds : RunStreamRaise(t)
    \/ \E t \in TaskIds : RunFinStopDone(t)
    \/ \E t \in TaskIds : RunAwaitTts(t)
    \/ \E t \in TaskIds : RunAwaitPlay(t)
    \/ TtsGet
    \/ \E ok \in BOOLEAN : TtsSynthDone(ok)
    \/ PlayGet
    \/ PlayStopSleepDone
    \/ PlayDone
    \/ PlayPauseDone
    \/ StopBegin
    \/ StopCleanup

Spec == Init /\ [][Next]_vars

(***************************************************************************)
(* The sink on its own: any caller, a callback that only suspends.         *)
(***************************************************************************)
sessionVars == <<sessVars, runVars, frames, enq, flag_sets, lock_order, llm_request>>

\* chunks the caller writes: a short chunk only opens a buffer
WriteLens(u) ==
    {len \in ChunkLens : /\ buffers[u] + len <= MaxBufModel
                         /\ (DownsampledLen(len) < TARGET_SAMPLE_RATE => buffers[u] = 0)}

SinkWrite(u, rms, len) ==
    /\ len \in WriteLens(u)
    /\ write(u, rms, len)
    /\ Cardinality({k \in TimerIds : timers'[k].st # "none"}) <= MaxTimers
    /\ nextTask' <= MaxSinkTasks + 1
    /\ UNCHANGED <<playback_active, epoch, quiet, sessionVars>>
    /\ UNCHANGED extVars

SinkProcessSegment(u, rms, len) ==
    /\ process_segment(u, rms, len)
    /\ nextTask' <= MaxSinkTasks + 1
    /\ quiet' = IF playback_active /\ rms > SILENCE_THRESHOLD
                                    /\ rms <= PLAYBACK_SPEECH_THRESHOLD
                 THEN IF nextTask' # nextTask THEN "task" ELSE "skipped"
                 ELSE quiet
    /\ UNCHANGED <<sinkVars, sessionVars>>
    /\ UNCHANGED extVars

SinkSetPlaybackActive(active) ==
    /\ playback_active' = active
    /\ UNCHANGED <<buffers, speaking, last_speech, silence_tasks, timers, epoch,
                   taskVars, quiet, sessionVars>>
    /\ UNCHANGED extVars

SinkDrain ==
    /\ epoch < MaxSinkEpoch
    /\ drain
    /\ UNCHANGED <<playback_active, tasks, ready, nextTask, quiet, sessionVars>>
    /\ UNCHANGED extVars

SinkCleanup ==
    /\ cleanup
    /\ UNCHANGED <<speaking, last_speech, playback_active, epoch, nextTask,
                   is_active, stop_pc, interrupted, partial, text, sentence_buf,
                   full_response, first_sentence, audio_queue, tts_item,
                   play_item, ndeltas, run_owner,
                   enq, quiet, flag_sets, lock_order, llm_request>>
    /\ UNCHANGED extVars

\* _check_silence starts and suspends in asyncio.sleep(VAD_SILENCE_DURATION)
TimerStart(k) ==
    /\ timers[k].st = "new"
    /\ timers' = [timers EXCEPT ![k].st = "sleep"]
    /\ UNCHANGED <<buffers, speaking, last_speech, silence_tasks, playback_active,
                   epoch, taskVars, quiet, sessionVars>>
    /\ UNCHANGED extVars

\* _check_silence: the sleep is over.  elapsed is "now - last >=
\* VAD_SILENCE_DURATION", certain unless speech arrived during the sleep.
TimerWake(k, elapsed) ==
    /\ timers[k].st = "sleep"
    /\ elapsed \/ (timers[k].spoke /\ timers[k].user \in last_speech)
    /\ LET u == timers[k].user IN
       /\ IF speaking[u] /\ elapsed
          THEN /\ speaking' = [speaking EXCEPT ![u] = FALSE]
               /\ CreateTask("flush", u, 0)
               /\ nextTask' <= MaxSinkTasks + 1
          ELSE UNCHANGED <<speaking, taskVars>>
       \* finally: self._silence_tasks.pop(user_id, None)
       /\ silence_tasks' = [silence_tasks EXCEPT ![u] = 0]
    /\ timers' = [timers EXCEPT ![k] = NoTimer]
    /\ UNCHANGED <<buffers, last_speech, playback_active, epoch, quiet,
                   sessionVars>>
    /\ UNCHANGED extVars

\* _check_silence: CancelledError arrives in the sleep; the finally block runs
TimerCancelled(k) ==
    /\ timers[k].st = "cancelled"
    /\ silence_tasks' = [silence_tasks EXCEPT ![timers[k].user] = 0]
    /\ timers' = [timers EXCEPT ![k] = NoTimer]
    /\ UNCHANGED <<buffers, speaking, last_speech, playback_active, epoch,
                   taskVars, quiet, sessionVars>>
    /\ UNCHANGED extVars

\* first step of a pipeline task: _process_raw_segment or _flush_buffer up to
\* "await self._callback(...)"
SinkTaskStart ==
    /\ ready # <<>>
    /\ LET t == FirstReady(ready)
           out == IF tasks[t].kind = "segment" THEN SegmentOutcome(tasks[t])
                  ELSE FlushOutcome(tasks[t])
       IN  /\ ready' = Remove(ready, t)
           /\ buffers' = IF tasks[t].kind = "flush"
                         THEN [buffers EXCEPT ![tasks[t].user] = 0] ELSE buffers
           /\ IF out = "called"
              THEN /\ tasks' = Past(t, "callback")
                   /\ pipeline_tasks' = pipeline_tasks
              ELSE /\ tasks' = EndTask(t, out)
                   /\ pipeline_tasks' = pipeline_tasks \ {t}
    /\ UNCHANGED <<speaking, last_speech, silence_tasks, timers, playback_active,
                   epoch, nextTask, quiet, sessionVars>>
    /\ UNCHANGED extVars

\* the callback returns or raises; the done callback discards the task
SinkCallbackDone(t) ==
    /\ tasks[t].pc = "callback"
    /\ tasks' = EndTask(t, "done")
    /\ pipeline_tasks' = pipeline_tasks \ {t}
    /\ UNCHANGED <<sinkVars, ready, nextTask, quiet, sessionVars>>
    /\ UNCHANGED extVars

SinkNext ==
    \/ \E u \in Users, rms \in RmsValues, len \in ChunkLens : SinkWrite(u, rms, len)
    \/ \E u \in Users, rms \in RmsValues, len \in SegLens : SinkProcessSegment(u, rms, len)
    \/ \E active \in BOOLEAN : SinkSetPlaybackActive(active)
    \/ SinkDrain
    \/ SinkCleanup
    \/ \E k \in TimerIds : TimerStart(k)
    \/ \E k \in TimerIds, elapsed \in BOOLEAN : TimerWake(k, elapsed)
    \/ \E k \in TimerIds : TimerCancelled(k)
    \/ SinkTaskStart
    \/ \E t \in TaskIds : SinkCallbackDone(t)

SinkSpec == Init /\ [][SinkNext]_vars

TypeOK ==
    /\ playback_active \in BOOLEAN
    /\ epoch \in 0..MaxEpoch
    /\ lock_owner \in TaskIds \cup {0}

(***************************************************************************)
(* Properties.                                                             *)
(***************************************************************************)
\* a worker of the current run has not finished
WorkersAlive ==
    \/ tts_pc \in {"get", "synth"}
    \/ play_pc \in {"get", "stop_sleep", "playing", "pause"}

\* C1: at most one _on_audio_chunk invocation is inside the processing-lock
\* section, and it is the lock's holder; an invocation that passed the gates
\* while the lock was taken waits; the section is entered only when no worker
\* of an earlier run is still alive, and live workers belong to the run that
\* is inside the section.
C1_OneRunInLockSection ==
    /\ \A t, u \in TaskIds : InSection(t) /\ InSection(u) => t = u
    /\ \A t \in TaskIds : InSection(t) => lock_owner = t
    /\ \A t \in TaskIds : tasks[t].pc = "lockwait" => lock_owner \notin {0, t}
    /\ \A t \in TaskIds : tasks[t].pc \in {"acquired", "stt", "stt_stop"} => ~WorkersAlive
    /\ \A t \in TaskIds : InSection(t) /\ WorkersAlive => run_owner = t

\* a run that waited for the lock has just been handed it by a run that had
\* streamed a response and was interrupted
C1_Witness ==
    \E t \in TaskIds : tasks[t].pc = "acquired" /\ partial # <<>> /\ ~WorkersAlive

\* C2: a process_segment call made while playback_active is true with energy
\* up to PLAYBACK_SPEECH_THRESHOLD never creates a pipeline task (so the
\* pipeline callback is never invoked for it).
C2_QuietSegmentDuringPlaybackDropped == quiet # "task"

\* such a call, with energy above the idle threshold, has been made
C2_Witness == quiet = "skipped" /\ playback_active

\* C3: the epoch never decreases; after a drain() every segment task that has
\* not started yet holds an epoch different from the current one; and a task
\* whose epoch differs from the current one never reaches the callback.
C3_StaleTaskSkipsCallback ==
    [][/\ epoch' >= epoch
       /\ epoch' # epoch =>
            \A t \in TaskIds :
                tasks'[t].kind = "segment" /\ tasks'[t].pc = "ready"
                    => tasks'[t].epoch # epoch'
       /\ \A t \in TaskIds :
            /\ tasks[t].kind = "segment" /\ tasks[t].pc = "ready"
            /\ tasks[t].epoch # epoch
            => tasks'[t].pc \in {"ready", "stale", "done", "cancelled"}]_vars

\* a task created before a drain() has returned at its epoch check
C3_Witness == \E t \in TaskIds : tasks[t].pc = "stale" /\ epoch > 0

\* C4: the interruption flag is set at most once between two lock entries,
\* it goes from false to true only while playback_active is true, and it goes
\* from true to false only in the step in which a run enters the lock section.
C4_FlagSetOncePerRun ==
    /\ [](flag_sets <= 1)
    /\ [][/\ (~interrupted /\ interrupted') => playback_active
          /\ (interrupted /\ ~interrupted') =>
                \E t \in TaskIds : /\ ~InSection(t)
                                   /\ tasks'[t].pc = "stt"
                                   /\ lock_owner' = t]_vars

\* the flag set during the first run has been reset by the second run
C4_Witness ==
    /\ lock_order = <<1, 2>>
    /\ tasks[2].pc = "stt"
    /\ partial # <<>>
    /\ ~interrupted

\* C5 (refuted by the code): in the step in which the interruption flag goes
\* from false to true, a stop frame with fade = true is sent to the bridge.
C5_StopFrameWithFadeSent ==
    [][(~interrupted /\ interrupted') =>
            /\ Len(frames') = Len(frames) + 1
            /\ frames'[Len(frames')] = Frame("stop", SENTINEL, TRUE)]_vars

\* the step in which a run that reached the LLM call leaves the lock section
\* without a pending exception
ReleasesLock(t) ==
    /\ run_owner = t
    /\ run_exc = "none"
    /\ tasks[t].pc \in {"await_tts", "await_play"}
    /\ tasks'[t].pc = "done"

\* C6 (refuted by the code): when a run releases the processing lock, the
\* saved partial response is the concatenation of the deltas of that run if
\* and only if the interruption flag was set during the run and at least one
\* delta had been received.
C6_PartialSavedIffInterrupted ==
    [][\A t \in TaskIds :
            ReleasesLock(t) =>
                ((partial' # <<>> /\ partial' = full_response)
                    <=> (interrupted /\ full_response # <<>>))]_vars

\* the step in which run t sends its request to the LLM
RequestsLLM(t) == tasks[t].pc = "stt" /\ tasks'[t].pc = "llm"

\* C7: the request a run sends to the LLM is the transcript, preceded by the
\* preamble quoting the saved partial response when there is one, and the
\* saved partial response is None afterwards; a saved partial response changes
\* in no other step (not when a run ends at the gates, at an empty transcript
\* or at a failing STT call).
C7_PartialConsumedByNextRequest ==
    [][/\ \A t \in TaskIds :
            RequestsLLM(t) =>
                /\ llm_request' = IF partial # <<>>
                                  THEN PreambleHead \o partial \o PreambleTail \o text'
                                  ELSE text'
                /\ partial' = <<>>
       /\ (partial # <<>> /\ partial' # partial) =>
            \E t \in TaskIds : RequestsLLM(t)]_vars

\* the second run has sent a request that quotes the response of the first
C7_Witness ==
    /\ lock_order = <<1, 2>>
    /\ tasks[2].pc = "llm"
    /\ partial = <<>>
    /\ Len(llm_request) > Len(PreambleHead) + Len(PreambleTail) + Len(text)
    /\ SubSeq(llm_request, 1, Len(PreambleHead)) = PreambleHead

\* the sentences of the play frames sent during the current run
Played ==
    LET ps == SelectSeq(frames, LAMBDA f : f.op = "play")
    IN  [k \in 1..Len(ps) |-> ps[k].audio]

\* C8: the play frames of a run carry sentences of the sentence queue, in
\* the order in which they were put on it, none of them twice.
C8_PlaybackInQueueOrder ==
    /\ \A k \in 1..Len(enq) : enq[k].i = k
    /\ \A k \in 1..Len(Played) :
            Played[k].i \in 1..Len(enq) /\ enq[Played[k].i] = Played[k]
    /\ \A j, k \in 1..Len(Played) : j < k => Played[j].i < Played[k].i

\* two sentences of one run have been played
C8_Witness == Len(Played) = 2 /\ Len(enq) = 2

\* C9: the runs take the processing lock in the order in which their segments
\* were passed to process_segment (task ids are handed out in that order).
C9_LockTakenInSegmentOrder ==
    \A j, k \in 1..Len(lock_order) : j < k => lock_order[j] < lock_order[k]

\* both segments have reached the lock section, the first one first
C9_Witness == lock_order = <<1, 2>> /\ tasks[2].pc = "stt_stop"

\* a pipeline task runs to its end in this step
Completes(t) ==
    /\ tasks[t].pc \in {"ready", "callback"}
    /\ tasks'[t].pc \in {"done", "stale"}

\* C10: write, process_segment, set_playback_active and drain neither cancel
\* a pipeline task nor remove one from the pipeline-task set; a task leaves
\* the set only by running to its end or by cleanup.
C10_OnlyCompletionOrCleanupRemoves ==
    [][/\ \A t \in TaskIds :
            /\ (t \in pipeline_tasks /\ t \notin pipeline_tasks')
                    => (Completes(t) \/ SinkCleanup)
            /\ (tasks[t].pc # "cancelled" /\ tasks'[t].pc = "cancelled")
                    => SinkCleanup
       /\ (\/ \E u \in Users, rms \in RmsValues, len \in ChunkLens :
                    SinkWrite(u, rms, len)
           \/ \E u \in Users, rms \in RmsValues, len \in SegLens :
                    SinkProcessSegment(u, rms, len)
           \/ \E active \in BOOLEAN : SinkSetPlaybackActive(active)
           \/ SinkDrain)
            => /\ pipeline_tasks \subseteq pipeline_tasks'
               /\ \A t \in TaskIds :
                    tasks'[t].pc = "cancelled" => tasks[t].pc = "cancelled"]_vars

\* a pipeline task is still waiting in its callback after a drain and after
\* new speech has cancelled a silence timer
C10_Witness ==
    \E t \in pipeline_tasks, k \in TimerIds :
        /\ tasks[t].pc = "callback"
        /\ epoch > 0
        /\ timers[k].st = "cancelled"
        /\ speaking[timers[k].user]

(***************************************************************************)
(* VoiceManager claims.                                                    *)
(***************************************************************************)
Subscribed(s) == \A k \in CallbackKinds : callbacks[k] = s
InSessions(s) == sessions = s

Executing(s) == vsess[s].st \in {"starting", "stopping"}

\* C12: start() and stop() executions of the guild's sessions never overlap,
\* and at most one session of the guild is active
C12_StartStopNeverOverlap ==
    /\ Cardinality({s \in SessionIds : Executing(s)}) <= 1
    /\ Cardinality({s \in SessionIds : vsess[s].active}) <= 1
    /\ (\E s \in SessionIds : Executing(s)) => guild_lock # 0

\* the inactivity task waits for the lock while a join is starting a session
C12_Witness ==
    /\ callers[TimerTask].pc = "l_lock"
    /\ \E s \in SessionIds : vsess[s].st = "starting"
    /\ \E s \in SessionIds : vsess[s].st = "ended"

\* C20: with a non-empty allowlist, no trigger (auto-join, follow, /join) ever
\* starts a session in, or moves one to, a channel outside the allowlist
C20_NoSessionOutsideAllowlist == offlist = {}

(***************************************************************************)
(* VoiceBridgeClient: the run loop, the inbound frames and the calls the   *)
(* session makes on it (one guild).                                        *)
(***************************************************************************)
FrameKinds == {"invalid_json", "not_object", "unknown_op", "audio_no_user",
               "audio_bad_pcm", "unknown_guild", "audio", "ready", "play_done"}

MinOf(a, b) == IF a < b THEN a ELSE b

\* _run: delay = min(_RECONNECT_BASE * 2 ** _reconnect_attempts, _RECONNECT_MAX)
Delay(a) == MinOf(_RECONNECT_BASE * (2 ^ a), _RECONNECT_MAX)

\* send(): _ws refers to a socket that is still open
WsOpen == ws # 0 /\ loops[ws] = "open"

\* start(): a new _run task is created and stored in _task, whatever _task was
BridgeStart ==
    /\ \E l \in LoopIds :
        /\ loops[l] = "none"
        /\ \A k \in LoopIds : k < l => loops[k] # "none"
        /\ loops' = [loops EXCEPT ![l] = "connecting"]
        /\ run_task' = l
    /\ stopped' = FALSE
    /\ last_frame' = NoFrame
    /\ UNCHANGED <<ws, is_connected, attempts, ready_event, play_event, hs,
                   play_call, plays, last_delay, fails>>
    /\ UNCHANGED <<pipelineVars, mgrVars, idVars, gateVars, connVars, segVars, splitVars, wakeVars, drainVars>>

\* stop(): the task in _task is cancelled and awaited, the socket in _ws is
\* closed (a run loop reading from it sees a normal close and connects
\* again), _ws and _connected are cleared
BridgeStop ==
    /\ loops' = [l \in LoopIds |->
                    IF l = run_task /\ loops[l] # "none" THEN "ended"
                    ELSE IF l = ws /\ loops[l] = "open" THEN "connecting"
                    ELSE loops[l]]
    /\ run_task' = 0
    /\ ws' = 0
    /\ is_connected' = FALSE
    /\ stopped' = TRUE
    /\ plays' = [p \in PlayIds |-> IF plays[p] = "none" THEN "none" ELSE "done"]
    /\ last_frame' = NoFrame
    /\ UNCHANGED <<attempts, ready_event, play_event, hs, play_call,
                   last_delay, fails>>
    /\ UNCHANGED <<pipelineVars, mgrVars, idVars, gateVars, connVars, segVars, splitVars, wakeVars, drainVars>>

\* _run, lines 85-88: websockets.connect succeeded
ConnectOk(l) ==
    /\ loops[l] = "connecting"
    /\ loops' = [loops EXCEPT ![l] = "open"]
    /\ ws' = l
    /\ is_connected' = TRUE
    /\ attempts' = 0
    /\ fails' = 0
    /\ last_frame' = NoFrame
    /\ UNCHANGED <<run_task, ready_event, play_event, hs, play_call, plays,
                   last_delay, stopped>>
    /\ UNCHANGED <<pipelineVars, mgrVars, idVars, gateVars, connVars, segVars, splitVars, wakeVars, drainVars>>

\* _run, lines 98-110: an exception left the try block of loop l
ExceptPath(l) ==
    /\ attempts < MaxAttempts
    /\ loops' = [loops EXCEPT ![l] = "backoff"]
    /\ is_connected' = FALSE
    /\ ws' = 0
    /\ last_delay' = Delay(attempts)
    /\ attempts' = attempts + 1
    /\ fails' = fails + 1
    /\ plays' = [p \in PlayIds |-> IF plays[p] = "none" THEN "none" ELSE "done"]

\* websockets.connect raised
ConnectFail(l) ==
    /\ loops[l] = "connecting"
    /\ ExceptPath(l)
    /\ last_frame' = NoFrame
    /\ UNCHANGED <<run_task, ready_event, play_event, hs, play_call, stopped>>
    /\ UNCHANGED <<pipelineVars, mgrVars, idVars, gateVars, connVars, segVars, splitVars, wakeVars, drainVars>>

\* the socket of loop l broke: the iteration raises ConnectionClosedError
SocketError(l) ==
    /\ loops[l] = "open"
    /\ ExceptPath(l)
    /\ last_frame' = NoFrame
    /\ UNCHANGED <<run_task, ready_event, play_event, hs, play_call, stopped>>
    /\ UNCHANGED <<pipelineVars, mgrVars, idVars, gateVars, connVars, segVars, splitVars, wakeVars, drainVars>>

\* the bridge closed the socket of loop l with a normal close: the iteration
\* of line 90 ends without an exception and the while loop connects again
SocketClosedOk(l) ==
    /\ loops[l] = "open"
    /\ loops' = [loops EXCEPT ![l] = "connecting"]
    /\ plays' = [p \in PlayIds |-> IF plays[p] = "none" THEN "none" ELSE "done"]
    /\ last_frame' = NoFrame
    /\ UNCHANGED <<run_task, ws, is_connected, attempts, ready_event,
                   play_event, hs, play_call, last_delay, fails, stopped>>
    /\ UNCHANGED <<pipelineVars, mgrVars, idVars, gateVars, connVars, segVars, splitVars, wakeVars, drainVars>>

\* asyncio.sleep(delay) of line 110 is over
BackoffDone(l) ==
    /\ loops[l] = "backoff"
    /\ loops' = [loops EXCEPT ![l] = "connecting"]
    /\ last_frame' = NoFrame
    /\ UNCHANGED <<run_task, ws, is_connected, attempts, ready_event,
                   play_event, hs, play_call, plays, last_delay, fails, stopped>>
    /\ UNCHANGED <<pipelineVars, mgrVars, idVars, gateVars, connVars, segVars, splitVars, wakeVars, drainVars>>

\* json.loads and _handle_message: the frames whose exception is not a
\* json.JSONDecodeError.  msg.get of a value that is not an object raises
\* AttributeError; base64.b64decode (line 131) is outside the try
HandlerRaises(kind) == kind \in {"not_object", "audio_bad_pcm"}

\* _handle_message: the audio callback is awaited (int(user_id) of a frame
\* without user_id raises inside the try before the call)
CallbackCalled(kind) == kind = "audio"

\* evt = <events>.get(guild_id); if evt: evt.set()
SetEvent(ev) == IF ev = "none" THEN "none" ELSE "set"

\* one frame read by loop l; p is the play frame a play_done answers
InboundFrame(l, kind, p) ==
    /\ loops[l] = "open"
    /\ (kind = "play_done") <=> (p # 0)
    /\ p # 0 => plays[p] \in {"playing", "stopped"}
    /\ last_frame' = <<kind, CallbackCalled(kind)>>
    /\ IF HandlerRaises(kind)
       THEN /\ ExceptPath(l)
            /\ UNCHANGED <<ready_event, play_event, hs, play_call>>
       ELSE /\ ready_event' = IF kind = "ready" THEN SetEvent(ready_event)
                              ELSE ready_event
            /\ hs' = IF kind = "ready" /\ hs.pc \in {"sending", "waiting"}
                         /\ hs.sent # <<>> /\ hs.sent[1] = "join"
                         /\ hs.seen = "no"
                     THEN [hs EXCEPT !.seen = IF hs.pc = "sending"
                                              THEN "early" ELSE "late"]
                     ELSE hs
            /\ play_event' = IF p # 0 THEN SetEvent(play_event) ELSE play_event
            /\ play_call' = IF p # 0 /\ play_call.pc = "waiting"
                               /\ play_event = "unset"
                            THEN [play_call EXCEPT !.by = p] ELSE play_call
            /\ plays' = IF p # 0 THEN [plays EXCEPT ![p] = "done"] ELSE plays
            /\ UNCHANGED <<loops, ws, is_connected, attempts, last_delay, fails>>
    /\ UNCHANGED <<run_task, stopped>>
    /\ UNCHANGED <<pipelineVars, mgrVars, idVars, gateVars, connVars, segVars, splitVars, wakeVars, drainVars>>

\* VoiceSession.start() lines 292-304 and _on_bridge_reconnect lines 394-406:
\* the frames of the handshake in the order they are sent
CredentialsFirst == <<"voice_state_update", "join", "voice_server_update">>
HandshakeOrder == <<"join", "voice_state_update", "voice_server_update">>

\* start() of a session that is not active reaches bridge.join; the reconnect
\* handler of an active session is called (its guard is_active, line 386)
HandshakeBegin(kind) ==
    /\ hs.pc \in {"idle", "done"}
    /\ \E l \in LoopIds : loops[l] # "none"
    /\ (kind = "start") <=> ~hs.active
    /\ hs' = [kind |-> kind, pc |-> "sending", i |-> 0, sent |-> <<>>,
              seen |-> "no", result |-> "none", active |-> hs.active]
    /\ last_frame' = NoFrame
    /\ UNCHANGED <<loops, run_task, ws, is_connected, attempts, ready_event,
                   play_event, play_call, plays, last_delay, fails, stopped>>
    /\ UNCHANGED <<pipelineVars, mgrVars, idVars, gateVars, connVars, segVars, splitVars, wakeVars, drainVars>>

\* the next frame of the handshake: join() creates the ready event and sends
\* (lines 177-186); the two updates are sent when voice_data holds them.
\* send() raises when _ws is None or its socket is closed
HandshakeSend(present) ==
    /\ hs.pc = "sending"
    /\ hs.i < Len(HandshakeOrder)
    /\ LET op == HandshakeOrder[hs.i + 1]
       IN  /\ op = "join" => present
           /\ ready_event' = IF op = "join" THEN "unset" ELSE ready_event
           /\ hs' = IF ~present THEN [hs EXCEPT !.i = hs.i + 1]
                    ELSE IF WsOpen
                    THEN [hs EXCEPT !.i = hs.i + 1, !.sent = Append(hs.sent, op)]
                    ELSE [hs EXCEPT !.pc = "done", !.result = "raised"]
    /\ last_frame' = NoFrame
    /\ UNCHANGED <<loops, run_task, ws, is_connected, attempts, play_event,
                   play_call, plays, last_delay, fails, stopped>>
    /\ UNCHANGED <<pipelineVars, mgrVars, idVars, gateVars, connVars, segVars, splitVars, wakeVars, drainVars>>

\* the handshake has a result: start() sets is_active and registers the
\* callbacks when the bridge is ready (lines 304-316)
HandshakeResult(h, result) ==
    [h EXCEPT !.pc = "done", !.result = result,
              !.active = h.active \/ (h.kind = "start" /\ result = "ready")]

\* wait_ready(), lines 193-197: no event -> False; an event already set ->
\* True without waiting
HandshakeWaitReady ==
    /\ hs.pc = "sending"
    /\ hs.i = Len(HandshakeOrder)
    /\ IF ready_event = "none"
       THEN hs' = HandshakeResult(hs, "not_ready") /\ UNCHANGED ready_event
       ELSE IF ready_event = "set"
       THEN hs' = HandshakeResult(hs, "ready") /\ ready_event' = "none"
       ELSE hs' = [hs EXCEPT !.pc = "waiting"] /\ UNCHANGED ready_event
    /\ last_frame' = NoFrame
    /\ UNCHANGED <<loops, run_task, ws, is_connected, attempts, play_event,
                   play_call, plays, last_delay, fails, stopped>>
    /\ UNCHANGED <<pipelineVars, mgrVars, idVars, gateVars, connVars, segVars, splitVars, wakeVars, drainVars>>

\* wait_ready(), lines 197-203: the event was set while waiting
WaitReadyDone ==
    /\ hs.pc = "waiting"
    /\ ready_event = "set"
    /\ hs' = HandshakeResult(hs, "ready")
    /\ ready_event' = "none"
    /\ last_frame' = NoFrame
    /\ UNCHANGED <<loops, run_task, ws, is_connected, attempts, play_event,
                   play_call, plays, last_delay, fails, stopped>>
    /\ UNCHANGED <<pipelineVars, mgrVars, idVars, gateVars, connVars, segVars, splitVars, wakeVars, drainVars>>

\* wait_ready(), lines 199-203: the timeout expired with the event not set
WaitReadyTimeout ==
    /\ hs.pc = "waiting"
    /\ ready_event = "unset"
    /\ hs' = HandshakeResult(hs, "timeout")
    /\ ready_event' = "none"
    /\ last_frame' = NoFrame
    /\ UNCHANGED <<loops, run_task, ws, is_connected, attempts, play_event,
                   play_call, plays, last_delay, fails, stopped>>
    /\ UNCHANGED <<pipelineVars, mgrVars, idVars, gateVars, connVars, segVars, splitVars, wakeVars, drainVars>>

FreePlayIds == {p \in PlayIds : plays[p] = "none"}
NextPlayId == CHOOSE p \in FreePlayIds : \A q \in FreePlayIds : p <= q

\* play(), lines 221-229: the event is stored, then the play frame is sent
BridgePlayCall ==
    /\ hs.active
    /\ play_call.pc \in {"idle", "done"}
    /\ FreePlayIds # {}
    /\ play_event' = "unset"
    /\ IF WsOpen
       THEN /\ plays' = [plays EXCEPT ![NextPlayId] = "playing"]
            /\ play_call' = [pc |-> "waiting", id |-> NextPlayId, by |-> 0,
                             result |-> "none"]
       ELSE /\ play_call' = [pc |-> "done", id |-> 0, by |-> 0,
                             result |-> "raised"]
            /\ UNCHANGED plays
    /\ last_frame' = NoFrame
    /\ UNCHANGED <<loops, run_task, ws, is_connected, attempts, ready_event,
                   hs, last_delay, fails, stopped>>
    /\ UNCHANGED <<pipelineVars, mgrVars, idVars, gateVars, connVars, segVars, splitVars, wakeVars, drainVars>>

\* play(), lines 231-236: the event was set
BridgePlayReturn ==
    /\ play_call.pc = "waiting"
    /\ play_event = "set"
    /\ play_call' = [play_call EXCEPT !.pc = "done", !.result = "done"]
    /\ play_event' = "none"
    /\ last_frame' = NoFrame
    /\ UNCHANGED <<loops, run_task, ws, is_connected, attempts, ready_event,
                   hs, plays, last_delay, fails, stopped>>
    /\ UNCHANGED <<pipelineVars, mgrVars, idVars, gateVars, connVars, segVars, splitVars, wakeVars, drainVars>>

\* play(), lines 233-236: the timeout expired with the event not set
BridgePlayTimeout ==
    /\ play_call.pc = "waiting"
    /\ play_event = "unset"
    /\ play_call' = [play_call EXCEPT !.pc = "done", !.result = "timeout"]
    /\ play_event' = "none"
    /\ last_frame' = NoFrame
    /\ UNCHANGED <<loops, run_task, ws, is_connected, attempts, ready_event,
                   hs, plays, last_delay, fails, stopped>>
    /\ UNCHANGED <<pipelineVars, mgrVars, idVars, gateVars, connVars, segVars, splitVars, wakeVars, drainVars>>

\* _start_thinking_sound: a looping play frame sent with send(), no event
BridgeThinkingSend ==
    /\ hs.active
    /\ WsOpen
    /\ FreePlayIds # {}
    /\ \A p \in PlayIds : plays[p] # "looping"
    /\ plays' = [plays EXCEPT ![NextPlayId] = "looping"]
    /\ last_frame' = NoFrame
    /\ UNCHANGED <<loops, run_task, ws, is_connected, attempts, ready_event,
                   play_event, hs, play_call, last_delay, fails, stopped>>
    /\ UNCHANGED <<pipelineVars, mgrVars, idVars, gateVars, connVars, segVars, splitVars, wakeVars, drainVars>>

\* stop_playing(): the stop frame ends the looping sound, whose play_done the
\* bridge then sends
BridgeStopPlaying ==
    /\ hs.active
    /\ WsOpen
    /\ \E p \in PlayIds : plays[p] = "looping"
    /\ plays' = [p \in PlayIds |->
                    IF plays[p] = "looping" THEN "stopped" ELSE plays[p]]
    /\ last_frame' = NoFrame
    /\ UNCHANGED <<loops, run_task, ws, is_connected, attempts, ready_event,
                   play_event, hs, play_call, last_delay, fails, stopped>>
    /\ UNCHANGED <<pipelineVars, mgrVars, idVars, gateVars, connVars, segVars, splitVars, wakeVars, drainVars>>

\* the bridge client with the run loop bot.on_ready starts once, and the
\* session's calls on it
BridgeNext ==
    \/ (run_task = 0 /\ BridgeStart)
    \/ \E l \in LoopIds : ConnectOk(l)
    \/ \E l \in LoopIds : SocketError(l)
    \/ \E l \in LoopIds : BackoffDone(l)
    \/ \E l \in LoopIds : InboundFrame(l, "ready", 0)
    \/ \E l \in LoopIds, p \in PlayIds : InboundFrame(l, "play_done", p)
    \/ \E kind \in {"start", "reconnect"} : HandshakeBegin(kind)
    \/ \E present \in BOOLEAN : HandshakeSend(present)
    \/ HandshakeWaitReady
    \/ WaitReadyDone
    \/ WaitReadyTimeout
    \/ BridgePlayCall
    \/ BridgePlayReturn
    \/ BridgePlayTimeout
    \/ BridgeThinkingSend
    \/ BridgeStopPlaying

BridgeSpec == Init /\ [][BridgeNext]_vars

\* the run loops of the bridge client under any calls of start() and stop()
\* and any inbound frame
RunLoopNext ==
    \/ BridgeStart
    \/ BridgeStop
    \/ \E l \in LoopIds : ConnectOk(l)
    \/ \E l \in LoopIds : ConnectFail(l)
    \/ \E l \in LoopIds : SocketError(l)
    \/ \E l \in LoopIds : SocketClosedOk(l)
    \/ \E l \in LoopIds : BackoffDone(l)
    \/ \E l \in LoopIds, kind \in FrameKinds \ {"play_done"} :
            InboundFrame(l, kind, 0)

RunLoopSpec == Init /\ [][RunLoopNext]_vars

(***************************************************************************)
(* VoiceBridgeClient claims.                                               *)
(***************************************************************************)
Reestablished ==
    \E l \in LoopIds : loops[l] = "connecting" /\ loops'[l] = "open"
SocketLost ==
    \E l \in LoopIds : loops[l] = "open" /\ loops'[l] # "open"

\* C13: when the run loop re-establishes the socket while the guild's session
\* is active, the bridge client invokes the session's reconnect handler, which
\* starts the handshake again (join, voice_state_update, voice_server_update,
\* wait for ready)
C13_ReconnectInvokesHandshake ==
    [][(hs.active /\ Reestablished)
           => (hs'.kind = "reconnect" /\ hs'.pc = "sending")]_vars

\* C14: when the socket is lost while a caller is blocked in play() or in
\* wait_ready(), that call ends with a connection error in the step of the
\* loss instead of staying blocked until its timeout
C14_LossFailsWaiters ==
    [][SocketLost
           => /\ play_call.pc = "waiting" =>
                    (play_call'.pc = "done" /\ play_call'.result = "raised")
              /\ hs.pc = "waiting" =>
                    (hs'.pc = "done" /\ hs'.result = "raised")]_vars

\* C15: a play() call that returned because of a play_done was answered by
\* the play_done of its own play frame, never by that of an earlier play or
\* of the stopped thinking sound
C15_PlayDoneIsOwn ==
    (play_call.pc = "done" /\ play_call.result = "done")
        => play_call.by = play_call.id

WaitReadyReturned == hs.result \in {"ready", "timeout", "not_ready"}
WaitReadyCalled == hs.pc = "waiting" \/ WaitReadyReturned

\* C16: in start() and in the reconnect handshake the frames go out in the
\* order join, voice_state_update, voice_server_update and wait_ready is
\* called after them; when a ready frame arrived at any moment after the join
\* frame was sent, before the call of wait_ready included, wait_ready succeeds
C16_OrderAndEarlyReady ==
    /\ hs.sent \in {<<>>, <<"join">>, <<"join", "voice_state_update">>,
                    <<"join", "voice_server_update">>,
                    <<"join", "voice_state_update", "voice_server_update">>}
    /\ WaitReadyCalled => (hs.sent # <<>> /\ hs.i = Len(HandshakeOrder))
    /\ (WaitReadyReturned /\ hs.seen # "no") => hs.result = "ready"

\* a reconnect handshake sent its three frames, the ready frame arrived before
\* wait_ready was called, and wait_ready returned True
C16_Witness ==
    /\ hs.kind = "reconnect"
    /\ hs.sent = <<"join", "voice_state_update", "voice_server_update">>
    /\ hs.seen = "early"
    /\ hs.result = "ready"

LiveLoops == {l \in LoopIds : loops[l] \in {"connecting", "open", "backoff"}}
OpenSockets == {l \in LoopIds : loops[l] = "open"}

\* C17: whatever calls of start() and stop() were made, there is at most one
\* run loop and at most one open socket, and once stop() has returned there is
\* no run loop, no socket, and is_connected is false
C17_OneRunLoop ==
    /\ Cardinality(LiveLoops) <= 1
    /\ Cardinality(OpenSockets) <= 1
    /\ stopped => (LiveLoops = {} /\ ws = 0 /\ ~is_connected)

DroppedKinds == {"invalid_json", "not_object", "unknown_op", "audio_no_user",
                 "audio_bad_pcm", "unknown_guild"}

\* C18: a step that handles an inbound frame that is invalid JSON, not a JSON
\* object, of an unknown op, an audio frame without user_id or with
\* undecodable pcm, or a frame of an unknown guild only drops the frame: the
\* sockets stay open, the connected signal stays as it was, no callback is
\* called and no event is set
C18_BadFrameDropped ==
    [][last_frame'[1] \in DroppedKinds
           => /\ loops' = loops
              /\ ws' = ws
              /\ is_connected' = is_connected
              /\ ready_event' = ready_event
              /\ play_event' = play_event
              /\ ~last_frame'[2]]_vars

\* C19: the delay before the k-th consecutive reconnect attempt is
\* min(2 * 2^(k-1), 60) seconds and never more than 60; every reconnect
\* attempt comes after such a delay; a successful connection sets the attempt
\* counter back to 0
C19_BackoffDelays ==
    /\ [](fails > 0 => last_delay = MinOf(2 * (2 ^ (fails - 1)), 60))
    /\ [](last_delay <= 60)
    /\ [][Reestablished => attempts' = 0]_vars
    /\ [][\A l \in LoopIds :
            (loops[l] = "open" /\ loops'[l] = "connecting") => FALSE]_vars

(***************************************************************************)
(* VoiceManager claims: membership.                                        *)
(***************************************************************************)
\* leave_channel was called by a handler (not by the inactivity task) and has
\* not popped the session yet
LeaveUnderWay ==
    \E c \in CallerIds :
        callers[c].op = "leave" /\ callers[c].pc \in {"l_lock", "l_granted"}

\* C21: whenever the last human has left the channel of the session in
\* _sessions, with a join or a move in progress or not, the session is popped
\* and stopped by a leave_channel call that is already under way, without any
\* timer
C21_EmptyChannelLeftAtOnce ==
    (sessions # 0 /\ vsess[sessions].empty) => LeaveUnderWay

(***************************************************************************)
(* VoiceSession: per-user LLM session ids.                                 *)
(***************************************************************************)
Guild == "guild"

\* auth_store.make_session_id: f"voice:{guild_id}:{channel_id}:{user_id}"
make_session_id(guild_id, ch, user_id) ==
    <<"voice", ":", guild_id, ":", ch, ":", user_id>>

CachedNever(us, u) == FALSE

\* _get_or_create_user_session: "if user_id not in self._user_sessions"
Cached(us, u) == us[u] # <<>>

\* _get_or_create_user_session(user_id): the dictionary after the call
_get_or_create_user_session(us, u) ==
    IF Cached(us, u) THEN us
    ELSE [us EXCEPT ![u] = make_session_id(Guild, channel_id, u)]

\* a caller looks up the id of user u: the pipeline run of an utterance (line
\* 624), /new or /compact (commands/voice.py 198, 233)
Lookup(op, u) ==
    LET us == _get_or_create_user_session(user_sessions, u) IN
    /\ user_sessions' = us
    /\ lookup' = [op |-> op, user |-> u, id |-> us[u]]
    /\ returned' = [returned EXCEPT ![u] = @ \cup {us[u]}]
    /\ first_seen' = [first_seen EXCEPT ![u] = IF @ = 0 THEN channel_id ELSE @]
    /\ UNCHANGED channel_id
    /\ UNCHANGED <<pipelineVars, mgrVars, brVars, gateVars, connVars, segVars, splitVars, wakeVars, drainVars>>

Utterance(u) == Lookup("utterance", u)
NewCommand(u) == Lookup("new", u)
CompactCommand(u) == Lookup("compact", u)

\* move_to(channel): self.channel = channel when the voice client is connected
SessionMoveTo(ch, vc_connected) ==
    /\ ch # channel_id
    /\ channel_id' = IF vc_connected THEN ch ELSE channel_id
    /\ lookup' = NoLookup
    /\ UNCHANGED <<user_sessions, returned, first_seen>>
    /\ UNCHANGED <<pipelineVars, mgrVars, brVars, gateVars, connVars, segVars, splitVars, wakeVars, drainVars>>

IdNext ==
    \/ \E u \in IdUsers : Utterance(u)
    \/ \E u \in IdUsers : NewCommand(u)
    \/ \E u \in IdUsers : CompactCommand(u)
    \/ \E ch \in MoveChannels, k \in BOOLEAN : SessionMoveTo(ch, k)

IdSpec == Init /\ [][IdNext]_vars

SameStringAlways == \A u \in IdUsers : Cardinality(returned[u]) <= 1

\* C22 as stated: every lookup of a user's session id returns the same string,
\* and it is "voice:<guild>:<channel>:<user>" for the channel the session is
\* in at the lookup
C22_IdOfCurrentChannel ==
    /\ SameStringAlways
    /\ lookup.user # 0 =>
          lookup.id = make_session_id(Guild, channel_id, lookup.user)

\* C22 amended: every lookup of a user's session id returns the same string,
\* and it is "voice:<guild>:<channel>:<user>" for the channel the session was
\* in when the user's id was looked up first
C22_IdOfFirstChannel ==
    /\ SameStringAlways
    /\ lookup.user # 0 =>
          lookup.id = make_session_id(Guild, first_seen[lookup.user], lookup.user)

\* /new looks up, after a move, the id of a user who spoke before the move
C22_Witness ==
    /\ lookup.op = "new"
    /\ first_seen[lookup.user] # channel_id
    /\ \E u \in IdUsers : first_seen[u] = channel_id

(***************************************************************************)
(* The gates in front of the processing lock.                              *)
(***************************************************************************)
TookLock(t) == \E i \in 1..Len(lock_order) : lock_order[i] = t
WaitsForLock(t) == \E i \in 1..Len(lock_waiters) : lock_waiters[i] = t

\* C23: with require_wake_word_for_unauthorized set, the utterance of a user
\* who is not in the auth store, for which no wake-word detector returned
\* true, never takes or queues for the processing lock, never starts the
\* thinking sound or reaches STT or the LLM (the lock section), and never
\* resets the inactivity timer
C23_UnverifiedStopsAtGate ==
    gate.unverified =>
        /\ lock_owner # gate.task
        /\ ~WaitsForLock(gate.task)
        /\ ~TookLock(gate.task)
        /\ ~InSection(gate.task)
        /\ tasks[gate.task].pc = "done"
        /\ ~gate.notified

\* one utterance was turned away at the gate and another one went through
C23_Witness ==
    /\ gate.unverified
    /\ \E t \in TaskIds : t # gate.task /\ TookLock(t)

(***************************************************************************)
(* The thinking sound.                                                     *)
(***************************************************************************)
\* every looping play frame in fs is followed by a stop frame
ThinkingStopped(fs) ==
    \A i \in 1..Len(fs) :
        fs[i] = ThinkingFrame =>
            \E j \in (i + 1)..Len(fs) : fs[j].op = "stop"

\* the holder of the processing lock gives it up in this step
LockReleased == lock_owner # 0 /\ lock_owner' # lock_owner

\* C24: a pipeline run that sent the looping thinking-sound play frame has
\* sent a stop frame after it when it releases the processing lock
C24_ThinkingStoppedBeforeRelease ==
    [][LockReleased => ThinkingStopped(frames)]_vars

(***************************************************************************)
(* VoiceSession.start(): wait_ready times out.                             *)
(***************************************************************************)
HasCallback(s) == \E k \in DOMAIN callbacks : callbacks[k] = s

\* caller c's start() ends in this step because wait_ready was not ready
StartTimesOut(c) ==
    /\ callers[c].pc = "j_ready"
    /\ callers'[c].pc # "j_ready"
    /\ vsess'[callers[c].sid].st # "started"

TornDown(s) ==
    /\ sessions # s
    /\ ~vsess[s].active
    /\ ~HasCallback(s)
    /\ ~attached.join
    /\ ~attached.vc

\* C25: when wait_ready times out during start(), the session is torn down:
\* it is not in _sessions, is_active is false, none of its bridge callbacks is
\* registered, a disconnect for the guild has been sent to the bridge, and the
\* voice client obtained during that start is disconnected
C25_FailedStartTornDown ==
    [][\A c \in CallerIds, s \in SessionIds :
          (StartTimesOut(c) /\ callers[c].sid = s) => TornDown(s)']_vars

(***************************************************************************)
(* StreamingSink: sequences of process_segment calls.                      *)
(***************************************************************************)
\* raw lengths given to process_segment: nothing, an odd number of bytes, an
\* odd number of samples, and lengths around 0.5 s of 48 kHz stereo audio
RawLens == {0, 47999, 48000, 95996, 95998, 96000}

SegProcessSegment(u, rms, len) ==
    /\ process_segment(u, rms, len)
    /\ seg_log' = IF nextTask' # nextTask
                  THEN [seg_log EXCEPT ![nextTask] = [len |-> len, calls |-> 0]]
                  ELSE seg_log
    /\ UNCHANGED <<sinkVars, sessionVars, quiet>>
    /\ UNCHANGED <<mgrVars, brVars, idVars, gateVars, connVars, splitVars, wakeVars, drainVars>>

\* first step of a task made by process_segment: _process_raw_segment up to
\* the callback
SegTaskStart ==
    /\ ready # <<>>
    /\ LET t == FirstReady(ready)
           out == SegmentOutcome(tasks[t])
       IN  /\ ready' = Remove(ready, t)
           /\ IF out = "called"
              THEN /\ tasks' = Past(t, "callback")
                   /\ pipeline_tasks' = pipeline_tasks
                   /\ seg_log' = [seg_log EXCEPT ![t].calls = @ + 1]
              ELSE /\ tasks' = EndTask(t, out)
                   /\ pipeline_tasks' = pipeline_tasks \ {t}
                   /\ seg_log' = seg_log
    /\ UNCHANGED <<sinkVars, nextTask, quiet, sessionVars>>
    /\ UNCHANGED <<mgrVars, brVars, idVars, gateVars, connVars, splitVars, wakeVars, drainVars>>

SegNext ==
    \/ \E u \in Users, rms \in RmsValues, len \in RawLens : SegProcessSegment(u, rms, len)
    \/ \E active \in BOOLEAN : SinkSetPlaybackActive(active)
    \/ SegTaskStart
    \/ \E t \in TaskIds : SinkCallbackDone(t)

SegSpec == Init /\ [][SegNext]_vars

Segments == {t \in TaskIds : seg_log[t].len # 0}
LongSegments == {t \in Segments : DownsampledLen(seg_log[t].len) >= TARGET_SAMPLE_RATE}
Started(t) == tasks[t].pc # "ready"

\* C26: in a sequence of process_segment calls with RMS above the active
\* threshold, the pipeline callback is invoked exactly once for each segment
\* whose downsampled length is at least 16000 bytes (as soon as its task has
\* run) and never for a shorter one; when every task has run, the number of
\* invocations is the number of such segments
C26_OnceForEachLongSegment ==
    /\ \A t \in Segments :
          /\ seg_log[t].calls <= 1
          /\ seg_log[t].calls = 1 => t \in LongSegments
          /\ Started(t) => (seg_log[t].calls = 1 <=> t \in LongSegments)
    /\ ready = <<>> =>
          Cardinality({t \in Segments : seg_log[t].calls = 1}) = Cardinality(LongSegments)

\* a short segment and a long one have both run: one invocation
C26_Witness ==
    /\ ready = <<>>
    /\ Cardinality(Segments) = 2
    /\ Cardinality(LongSegments) = 1
    /\ \E t \in LongSegments : seg_log[t].calls = 1

(***************************************************************************)
(* The sentence splitter on its own: any sequence of LLM deltas.           *)
(***************************************************************************)
RECURSIVE Rep(_, _)
Rep(ch, n) == IF n = 0 THEN <<>> ELSE <<ch>> \o Rep(ch, n - 1)

\* Deltas of the LLM stream: run-on text in blocks, a block that ends a line,
\* the end of a sentence, a clause break, a space, and the texts "Mr. Smith",
\* "3.14 is pi", "e.g. this" with a continuation " ok. "
SplitDeltas ==
    { Rep("a", 100), Rep("a", 98), Rep("a", 101), Rep("a", 99) \o <<"\n">>,
      <<"a", "b", ".", " ">>, <<",", " ">>, <<" ">>,
      <<"M", "r", ".", " ", "S", "m", "i", "t", "h">>,
      <<"3", ".", "1", "4", " ", "i", "s", " ", "p", "i">>,
      <<"e", ".", "g", ".", " ", "t", "h", "i", "s">>,
      <<" ", "o", "k", ".", " ">> }

\* the cut after position k of buf has a character of a word on either side
CutsWord(buf, k) ==
    /\ k >= 1
    /\ k < Len(buf)
    /\ buf[k] \notin Whitespace
    /\ buf[k + 1] \notin Whitespace

\* length of the whitespace-delimited word of buf that holds position k
WordLen(buf, k) ==
    LET first == CHOOSE i \in 1..k :
                    /\ \A j \in i..k : buf[j] \notin Whitespace
                    /\ i = 1 \/ buf[i - 1] \in Whitespace
        last == CHOOSE i \in k..Len(buf) :
                    /\ \A j \in k..i : buf[j] \notin Whitespace
                    /\ i = Len(buf) \/ buf[i + 1] \in Whitespace
    IN  last - first + 1

\* what one pass of the extraction loop puts on the queue, with the place of
\* its cut in the buffer
Emitted(buf, r, via) ==
    LET k == Len(buf) - Len(r.rest) IN
    [s |-> r.sentence, via |-> via,
     cut |-> via = "force" /\ CutsWord(buf, k),
     word |-> IF via = "force" /\ CutsWord(buf, k) THEN WordLen(buf, k) ELSE 0]

\* the extraction loop, lines 733-752, with what it puts on the queue
RECURSIVE ExtractLog(_, _)
ExtractLog(buf, acc) ==
    LET s1 == _split_first_sentence(buf)
        s2 == IF s1.found THEN s1 ELSE _force_split_long(buf)
    IN  IF s2.found
        THEN ExtractLog(s2.rest,
                        Append(acc, Emitted(buf, s2, IF s1.found THEN "sentence"
                                                     ELSE "force")))
        ELSE [out |-> acc, rest |-> buf]

\* a delta arrives: lines 727-752
SplitDelta(d) ==
    /\ split_n >= 0
    /\ split_n < MaxSplitDeltas
    /\ LET buf == split_buf \o d
           r == _split_first_sentence(buf)
           x == ExtractLog(buf, <<>>)
       IN  /\ split_first' = [buf |-> buf, found |-> r.found,
                              sentence |-> r.sentence, rest |-> r.rest]
           /\ split_out' = x.out
           /\ split_buf' = x.rest
    /\ split_n' = split_n + 1
    /\ UNCHANGED <<pipelineVars, mgrVars, brVars, idVars, gateVars, connVars, segVars, wakeVars, drainVars>>

\* the stream is over: lines 754-762, the final flush
SplitFlush ==
    /\ split_n >= 0
    /\ split_out' = IF Strip(split_buf) # <<>>
                    THEN <<[s |-> Strip(split_buf), via |-> "flush",
                            cut |-> FALSE, word |-> 0]>>
                    ELSE <<>>
    /\ split_buf' = <<>>
    /\ split_first' = NoSplit
    /\ split_n' = 0 - 1
    /\ UNCHANGED <<pipelineVars, mgrVars, brVars, idVars, gateVars, connVars, segVars, wakeVars, drainVars>>

SplitNext ==
    \/ \E d \in SplitDeltas : SplitDelta(d)
    \/ SplitFlush

SplitSpec == Init /\ [][SplitNext]_vars

\* C27: every string put on the sentence queue, by the sentence split, the
\* force split or the final flush, has at most 300 characters, and a force
\* split cuts inside a word only when that word is longer than 300 characters
C27_QueueItemsBounded ==
    \A i \in 1..Len(split_out) :
        /\ Len(split_out[i].s) <= MAX_SENTENCE_CHARS
        /\ split_out[i].cut => split_out[i].word > MAX_SENTENCE_CHARS

(***************************************************************************)
(* The abbreviation and decimal guards of _split_first_sentence.           *)
(***************************************************************************)
MrSmith == <<"M", "r", ".", " ", "S", "m", "i", "t", "h">>
Pi314 == <<"3", ".", "1", "4", " ", "i", "s", " ", "p", "i">>
EgThis == <<"e", ".", "g", ".", " ", "t", "h", "i", "s">>
OkEnd == <<" ", "o", "k", ".", " ">>

\* _split_first_sentence returned (None, buffer) for the buffer of the last step
NoBoundary == ~split_first.found /\ split_first.rest = split_first.buf

\* it split the buffer x followed by " ok. " at the period after "ok"
SplitAtLaterTerminator(x) ==
    /\ split_first.found
    /\ split_first.sentence = x \o <<" ", "o", "k", ".">>
    /\ split_first.rest = <<>>

\* C28 as stated: for the buffers "Mr. Smith", "3.14 is pi" and "e.g. this",
\* _split_first_sentence returns (None, buffer), and it splits only at a later
\* real terminator
C28_NoSplitAtAnyOfThree ==
    \A x \in {MrSmith, Pi314, EgThis} :
        /\ split_first.buf = x => NoBoundary
        /\ split_first.buf = x \o OkEnd => SplitAtLaterTerminator(x)

\* C28 amended: for the buffers "Mr. Smith" and "3.14 is pi",
\* _split_first_sentence returns (None, buffer) and splits only at a later
\* real terminator; "e.g" is not in the abbreviation set, and for "e.g. this"
\* it returns ("e.g.", "this")
C28_NoSplitAtListedAbbreviation ==
    /\ \A x \in {MrSmith, Pi314} :
          /\ split_first.buf = x => NoBoundary
          /\ split_first.buf = x \o OkEnd => SplitAtLaterTerminator(x)
    /\ split_first.buf = EgThis =>
          /\ split_first.found
          /\ split_first.sentence = <<"e", ".", "g", ".">>
          /\ split_first.rest = <<"t", "h", "i", "s">>

\* "Mr. Smith ok. " has been split after "ok."
C28_Witness ==
    /\ split_first.buf = MrSmith \o OkEnd
    /\ SplitAtLaterTerminator(MrSmith)

(***************************************************************************)
(* drain() and the runs that were dispatched before it.                    *)
(***************************************************************************)
\* C29: a run whose segment was dispatched before a drain() and that had not
\* taken the processing lock at the drain - it had not started, or it was
\* waiting for the lock behind the run that is playing - performs no STT, LLM
\* or TTS work: it never is inside the lock section, where the first step
\* is the transcribe() call
C29_DrainedRunSkips ==
    \A t \in drained : ~InSection(t)

(***************************************************************************)
(* The interruption flag and the workers.                                  *)
(***************************************************************************)
PlayFrames(fs) == Len(SelectSeq(fs, LAMBDA f : f.op = "play"))

\* a step of the run that holds the lock, taken with the flag set
StepWithFlagSet == interrupted /\ lock_owner # 0 /\ lock_owner' = lock_owner

\* C30: once the interruption flag is set during a run, the run starts no
\* further TTS synthesis and sends no further play frame to the bridge
C30_NothingStartedAfterFlag ==
    [][StepWithFlagSet =>
          /\ PlayFrames(frames') <= PlayFrames(frames)
          /\ tts_pc' = "synth" => tts_pc = "synth"]_vars

(***************************************************************************)
(* stop() and the work of the session that is still to come.               *)
(***************************************************************************)
\* a run calls transcribe() in this step
SttStarts == \E t \in TaskIds : tasks[t].pc # "stt" /\ tasks'[t].pc = "stt"

\* a run calls send_message_stream in this step
LlmRequestIssued == llm_request = <<>> /\ llm_request' # <<>>

\* a play frame for a synthesized sentence goes to the bridge in this step
PlayFrameSent == PlayFrames(frames') > PlayFrames(frames)

\* C31: once stop() has cleared is_active, no run starts an STT
\* transcription, issues an LLM request or sends a play frame, the runs that
\* were waiting for the processing lock when stop() began included
C31_NothingNewAfterStop ==
    [][~is_active => ~SttStarts /\ ~LlmRequestIssued /\ ~PlayFrameSent]_vars

\* the play-frame part of C31 on its own
C31_NoPlayFrameAfterStop == [][~is_active => ~PlayFrameSent]_vars

(***************************************************************************)
(* The leave_channel call of the inactivity task.                          *)
(***************************************************************************)
\* the leave_channel call made by the inactivity task ends in this step
TimerLeaveEnds ==
    callers[TimerTask].pc = "l_stop" /\ callers'[TimerTask].pc # "l_stop"

\* C32: when the inactivity timer has expired, the leave_channel call of the
\* timer task runs stop() to its end: when the call is over the session is
\* not in _sessions, the bridge has got the disconnect frame and the voice
\* client is disconnected (the steps of stop() that come before the
\* compaction of the histories and the cleanup of the sink)
C32_TimerLeaveCompletesStop ==
    [][TimerLeaveEnds => sessions' = 0 /\ attached' = NoConn]_vars

\* the part of C32 that is about _sessions, on its own
C32_TimerLeavePopsSession == [][TimerLeaveEnds => sessions' = 0]_vars

(***************************************************************************)
(* sink.playback_active and the processing lock.                           *)
(***************************************************************************)
\* a run is between set_playback_active(True) and set_playback_active(False)
\* with the processing lock held
RunHoldsPlayback ==
    /\ lock_owner # 0
    /\ tasks[lock_owner].pc \in {"llm", "fin_stop", "await_tts", "await_play"}

\* C33: playback_active is true only while a pipeline run holds the
\* processing lock: a run that set it has set it back to false when it gives
\* up the lock, whether the LLM stream raised, a worker failed, the run was
\* interrupted by barge-in or the run's task was cancelled
C33_PlaybackActiveOnlyInRun ==
    playback_active => RunHoldsPlayback

\* C33 as long as sink.cleanup() has not cancelled the tasks
C33_PlaybackActiveOnlyInRunNotCancelled ==
    (playback_active /\ stop_pc # "stopped") => RunHoldsPlayback

(***************************************************************************)
(* VoiceBridgeClient: the connected signal and the socket handle.          *)
(***************************************************************************)
\* C34: is_connected is true only while _ws refers to an open socket, and a
\* socket that was lost - by an error or by an orderly close of the peer - is
\* not kept in _ws: send() finds _ws None and raises ConnectionError
C34_ConnectedOnlyWhileOpen ==
    /\ is_connected => WsOpen
    /\ ws # 0 => loops[ws] = "open"

\* the socket _ws refers to was lost by an orderly close
ClosedOrderly == ws # 0 /\ loops[ws] = "connecting"

\* C34 for the sockets that were not closed by the peer in an orderly way
C34_ConnectedOnlyWhileOpenAfterError ==
    ~ClosedOrderly => C34_ConnectedOnlyWhileOpen

(***************************************************************************)
(* StreamingSink: the write() path on its own, with as many silence timers *)
(* alive as there are slots.                                               *)
(***************************************************************************)
StreamWrite(u, rms, len) ==
    /\ len \in WriteLens(u)
    /\ write(u, rms, len)
    /\ nextTask' <= MaxSinkTasks + 1
    /\ UNCHANGED <<playback_active, epoch, quiet, sessionVars>>
    /\ UNCHANGED extVars

WriteNext ==
    \/ \E u \in Users, rms \in RmsValues, len \in ChunkLens : StreamWrite(u, rms, len)
    \/ \E active \in BOOLEAN : SinkSetPlaybackActive(active)
    \/ SinkDrain
    \/ SinkCleanup
    \/ \E k \in TimerIds : TimerStart(k)
    \/ \E k \in TimerIds, elapsed \in BOOLEAN : TimerWake(k, elapsed)
    \/ \E k \in TimerIds : TimerCancelled(k)
    \/ SinkTaskStart
    \/ \E t \in TaskIds : SinkCallbackDone(t)

WriteSpec == Init /\ [][WriteNext]_vars

\* the _check_silence tasks of user u that are alive and not cancelled
LiveTimers(u) ==
    {k \in TimerIds : timers[k].user = u /\ timers[k].st \in {"new", "sleep"}}

\* C35: under every interleaving of write() calls with the wake-ups and the
\* cancellations of silence timers, a user has at most one live silence-timer
\* task, and that task is the one _silence_tasks holds for the user
C35_OneRecordedTimerPerUser ==
    \A u \in Users :
        /\ Cardinality(LiveTimers(u)) <= 1
        /\ \A k \in LiveTimers(u) : silence_tasks[u] = k


\* the converse part of C35: the task _silence_tasks holds for a user is a
\* live timer of that user
C35_RecordedTimerIsLive ==
    \A u \in Users : silence_tasks[u] # 0 => silence_tasks[u] \in LiveTimers(u)


\* C36: a per-user buffer of the streaming path never holds more than
\* MAX_BUFFER_SIZE bytes, whether the last chunk appended was speech or
\* trailing silence
C36_BufferWithinMax == \A u \in Users : buffers[u] <= MAX_BUFFER_SIZE

\* the speech part of C36: a buffer above MAX_BUFFER_SIZE was not filled by
\* speech chunks alone, a quiet chunk was appended while a timer was pending
C36_OverfullOnlyByTrailingSilence ==
    [][\A u \in Users :
          (buffers[u] <= MAX_BUFFER_SIZE /\ buffers'[u] > MAX_BUFFER_SIZE)
              => (speaking[u] /\ speaking'[u] /\ last_speech' = last_speech)]_vars


\* a write() of a chunk that is quiet by the playback threshold, made while
\* playback_active is true, that buffers the chunk as the user's speech
QuietChunkBufferedDuringPlayback(u, rms, len) ==
    /\ playback_active
    /\ rms <= PLAYBACK_SPEECH_THRESHOLD
    /\ StreamWrite(u, rms, len)
    /\ speaking'[u]
    /\ u \in last_speech'
    /\ buffers'[u] = buffers[u] + len

\* C37: on the streaming path a chunk with RMS <= 1200 written while
\* playback_active is true does not turn speaking[user] on and is not
\* buffered as speech
C37_QuietChunkDuringPlaybackNotSpeech ==
    [][~ \E u \in Users, rms \in RmsValues, len \in ChunkLens :
            /\ ~speaking[u]
            /\ QuietChunkBufferedDuringPlayback(u, rms, len)]_vars

\* the part of C37 that the code keeps: a chunk with RMS <= 300 never turns
\* speaking[user] on, during playback or not
C37_SilentChunkNeverStartsSpeech ==
    [][~ \E u \in Users, rms \in RmsValues, len \in ChunkLens :
            /\ rms <= SILENCE_THRESHOLD
            /\ StreamWrite(u, rms, len)
            /\ ~speaking[u] /\ speaking'[u]]_vars


(***************************************************************************)
(* VoiceSession: the wake-word gate of _on_audio_chunk, on its own.        *)
(***************************************************************************)
\* members of the session's voice channel, the assistant itself among the bots
MaxHumans == 4
MaxBots == 2

\* "len(self.channel.members)": every member in the channel counts
ChannelMembers(humans, bots) == humans + bots

\* "if is_authorized and self._wake_word and len(self.channel.members) > 2"
WakeWordChecked(is_authorized, has_ww, members) ==
    is_authorized /\ has_ww /\ members > 2

\* _on_audio_chunk from "is_authorized = ..." to notify_activity for one
\* utterance heard in a channel of the given members
GateUtterance(is_authorized, require_ww, has_ww, detect, humans, bots) ==
    /\ is_active
    /\ LET members == ChannelMembers(humans, bots) IN
       wake' = [seen |-> TRUE, is_authorized |-> is_authorized,
                require_ww |-> require_ww, has_ww |-> has_ww, detect |-> detect,
                humans |-> humans, bots |-> bots,
                checked |-> WakeWordChecked(is_authorized, has_ww, members),
                passed |-> GatePass(is_authorized, require_ww, has_ww, members, detect)]
    /\ UNCHANGED <<pipelineVars, mgrVars, brVars, idVars, gateVars, connVars,
                   segVars, splitVars, drainVars>>

GateNext ==
    \E is_authorized, require_ww, has_ww, detect \in BOOLEAN,
       humans \in 1..MaxHumans, bots \in 1..MaxBots :
        GateUtterance(is_authorized, require_ww, has_ww, detect, humans, bots)

GateSpec == Init /\ [][GateNext]_vars

\* C38: an authorized user's utterance is put to the wake-word check exactly
\* when a detector is configured and the channel has more than 2 non-bot
\* members; with 1 or 2 humans, whatever the bots, it passes without the check
C38_WakeWordByHumanCount ==
    (wake.seen /\ wake.is_authorized) =>
        /\ wake.checked <=> (wake.has_ww /\ wake.humans > 2)
        /\ wake.humans <= 2 => wake.passed

\* what the gate does: the check is made exactly when a detector is
\* configured and the channel has more than 2 members of any kind
C38_WakeWordByMemberCount ==
    (wake.seen /\ wake.is_authorized) =>
        /\ wake.checked <=> (wake.has_ww /\ wake.humans + wake.bots > 2)
        /\ wake.passed <=> (~wake.checked \/ wake.detect)


(***************************************************************************)
(* VoiceManager claims: the inactivity timer of a live session.            *)
(***************************************************************************)
\* no join, leave or follow is in progress in the guild
NoJoinOrLeave ==
    /\ guild_lock = 0
    /\ guild_waiters = <<>>
    /\ \A c \in CallerIds : callers[c].pc = "idle"

\* an _inactivity_disconnect task is recorded for the guild and asleep
TimerPending == inactivity = TimerTask /\ callers[TimerTask].pc = "t_sleep"

\* C39: whenever a session is in _sessions (the configured timeout being
\* positive) and no join or leave is in progress, one inactivity timer is
\* pending for it
C39_TimerPendingForLiveSession ==
    (sessions # 0 /\ NoJoinOrLeave) => TimerPending

\* the steps that leave a session in _sessions without a timer are those of
\* _try_join for a member entering while the session exists
C39_OnlyTryJoinDropsTimer ==
    [][(sessions # 0 /\ TimerPending /\ sessions' # 0 /\ NoJoinOrLeave' /\ ~TimerPending')
          => \/ \E ch \in Channels, k \in BOOLEAN : AutoJoin(ch, k)
             \/ \E c \in CallerIds, moved \in BOOLEAN : MoveDone(c, moved)]_vars


(***************************************************************************)
(* VoiceSession claims: what is left running when stop() has returned.     *)
(***************************************************************************)
\* pipeline tasks that have not ended
LiveTasks == {t \in TaskIds : tasks[t].kind # "none"}

\* C40: once stop() has returned, every pipeline task, the TTS worker and
\* the play worker have terminated
C40_NothingRunningAfterStop ==
    stop_pc = "stopped" => (LiveTasks = {} /\ ~WorkersAlive)

\* the pipeline tasks that had not entered the lock section, and the silence
\* timers, are gone when stop() has returned
C40_OnlyRunAndWorkersOutliveStop ==
    stop_pc = "stopped" =>
        /\ \A t \in LiveTasks : t = lock_owner /\ InSection(t)
        /\ ready = <<>> /\ lock_waiters = <<>>
        /\ \A k \in TimerIds : timers[k].st \notin {"new", "sleep"}

\* a play worker left without the run and the TTS worker that feed it
PlayWorkerOrphaned ==
    /\ stop_pc = "stopped"
    /\ lock_owner = 0
    /\ tts_pc = "cancelled"
    /\ play_pc = "get"
    /\ audio_queue = <<>>
====
